---- MODULE Spec2Model ----
(***************************************************************************)
(* A model of the crypto-accounts library: the BIP-32 extended-key engine  *)
(* (pkgs/bip32), its secp256k1 and hash primitives, the Base58Check codec, *)
(* the BIP-39 mnemonic codec and the shared registries.                    *)
(*                                                                         *)
(* TLC's integers are 32 bits wide, so the model keeps every algorithm of  *)
(* the source and shortens the widths it runs on: the curve is             *)
(* y^2 = x^3 + 7 over F_211 (group order 199, prime, below the field       *)
(* prime as for secp256k1), a scalar and an x coordinate take one byte     *)
(* instead of 32, a chain code 2 bytes instead of 32, a fingerprint 2      *)
(* bytes instead of 4 and a child index 16 bits instead of 32.  The hash   *)
(* functions of the Go standard library are replaced by a fixed mixing     *)
(* function of the same signature.                                         *)
(***************************************************************************)
EXTENDS Integers, Sequences, FiniteSets, TLC

VARIABLES keys, made, last, writes, procs, coinRegistry, generators, mn, path, wallet

vars == <<keys, made, last, writes, procs, coinRegistry, generators, mn, path, wallet>>

(***************************************************************************)
(* Bytes and big-endian integers (math/big SetBytes / Bytes, binary.BigEndian) *)
(***************************************************************************)
Byte == 0..255

RECURSIVE SetBytes(_)
SetBytes(b) == IF b = <<>> THEN 0 ELSE SetBytes(SubSeq(b, 1, Len(b) - 1)) * 256 + b[Len(b)]

\* binary.BigEndian.PutUint32 and the left-padded copies of big.Int.Bytes():
\* the value v written big-endian into exactly n bytes.
RECURSIVE PutUint(_, _)
PutUint(v, n) == IF n = 0 THEN <<>> ELSE Append(PutUint(v \div 256, n - 1), v % 256)

Zeros(n) == [i \in 1..n |-> 0]

RECURSIVE BitLen(_)
BitLen(k) == IF k = 0 THEN 0 ELSE 1 + BitLen(k \div 2)

Bit(k, i) == (k \div (2 ^ i)) % 2

(***************************************************************************)
(* Hash functions (pkgs/crypto/hash).  Mix stands for the compression      *)
(* function of the library hash; each hash takes its own tag.              *)
(***************************************************************************)
HashLen == 4

\* Absorbing the bytes data[lo..hi] one after the other, h <- h * 33 + byte + 1
\* (mod 32749), takes a state h to h * mul + add; by halves.
RECURSIVE MixRange(_, _, _)
MixRange(data, lo, hi) ==
    IF lo > hi THEN [mul |-> 1, add |-> 0]
    ELSE IF lo = hi THEN [mul |-> 33, add |-> data[lo] + 1]
    ELSE LET mid == (lo + hi) \div 2
             left == MixRange(data, lo, mid)
             right == MixRange(data, mid + 1, hi)
         IN  [mul |-> (left.mul * right.mul) % 32749,
              add |-> (left.add * right.mul + right.add) % 32749]

Mix(data, h) ==
    LET m == MixRange(data, 1, Len(data))
    IN  ((h % 32749) * m.mul + m.add) % 32749

Digest(tag, data, n) ==
    [j \in 1..n |-> ((Mix(data, tag * 131 + j * 977 + 7) * 75) % 65537) % 256]

SHA256(data) == Digest(1, data, HashLen)

DoubleSHA256(data) == SHA256(SHA256(data))

RIPEMD160(data) == Digest(2, data, HashLen)

Hash160(data) == RIPEMD160(SHA256(data))

ChecksumLen == 4

Checksum(data) == SubSeq(DoubleSHA256(data), 1, ChecksumLen)

VerifyChecksum(data) ==
    IF Len(data) < ChecksumLen THEN FALSE
    ELSE LET payload == SubSeq(data, 1, Len(data) - ChecksumLen)
             checksum == SubSeq(data, Len(data) - ChecksumLen + 1, Len(data))
         IN  \A i \in 1..ChecksumLen : checksum[i] = Checksum(payload)[i]

(***************************************************************************)
(* secp256k1 (pkgs/crypto/secp256k1), on the shortened curve.              *)
(***************************************************************************)
P == 211
N == 199
Gx == 3
Gy == 33

ScalarLen == 1
CompressedPubKeyLen == ScalarLen + 1
PrefixEven == 2
PrefixOdd == 3

Nil == -1

RECURSIVE ModExp(_, _, _)
ModExp(a, e, m) ==
    IF e = 0 THEN 1 % m
    ELSE LET h == ModExp(a, e \div 2, m)
         IN  IF e % 2 = 0 THEN (h * h) % m ELSE (((h * h) % m) * (a % m)) % m

\* big.Int.ModInverse: nil when a has no inverse modulo the prime m.
ModInverse(a, m) == IF a % m = 0 THEN Nil ELSE ModExp(a % m, m - 2, m)

\* big.Int.ModSqrt: nil when a is no square modulo the prime m (m = 3 mod 4).
ModSqrt(a, m) ==
    LET y == ModExp(a, (m + 1) \div 4, m)
    IN  IF (y * y) % m = a % m THEN y ELSE Nil

Generator == [X |-> Gx, Y |-> Gy]

Infinity == [X |-> 0, Y |-> 0]

\* The result of using the nil *big.Int that ModInverse returned.
NilDeref == [X |-> Nil, Y |-> Nil]

IsInfinity(p) == p.X = 0 /\ p.Y = 0

Double(p) ==
    IF p = NilDeref THEN NilDeref
    ELSE IF p.Y = 0 THEN Infinity
    ELSE LET x2 == (p.X * p.X) % P
             numerator == x2 * 3
             denomInv == ModInverse(p.Y * 2, P)
         IN  IF denomInv = Nil THEN NilDeref
             ELSE LET lambda == (numerator * denomInv) % P
                      x3 == (lambda * lambda - p.X * 2) % P
                      y3 == ((p.X - x3) * lambda - p.Y) % P
                  IN  [X |-> x3, Y |-> y3]

Add(p1, p2) ==
    IF p1 = NilDeref \/ p2 = NilDeref THEN NilDeref
    ELSE IF IsInfinity(p1) THEN p2
    ELSE IF IsInfinity(p2) THEN p1
    ELSE IF p1.X = p2.X THEN (IF p1.Y = p2.Y THEN Double(p1) ELSE Infinity)
    ELSE LET dy == p2.Y - p1.Y
             dx == p2.X - p1.X
             dxInv == ModInverse(dx, P)
         IN  IF dxInv = Nil THEN NilDeref
             ELSE LET lambda == (dy * dxInv) % P
                      x3 == (lambda * lambda - p1.X - p2.X) % P
                      y3 == ((p1.X - x3) * lambda - p1.Y) % P
                  IN  [X |-> x3, Y |-> y3]

RECURSIVE ScalarMultLoop(_, _, _, _)
ScalarMultLoop(result, addend, k, i) ==
    IF i >= BitLen(k) THEN result
    ELSE LET sum == IF Bit(k, i) = 1 THEN Add(result, addend) ELSE result
             doubled == Double(addend)
         IN  IF sum = NilDeref \/ doubled = NilDeref THEN NilDeref
             ELSE ScalarMultLoop(sum, doubled, k, i + 1)

ScalarMult(p, k) == ScalarMultLoop(Infinity, p, k, 0)

ScalarBaseMult(k) == ScalarMult(Generator, SetBytes(k))

IsValidPrivateKey(key) == LET k == SetBytes(key) IN k > 0 /\ k < N

AddPrivateKeys(k1, k2) == PutUint((SetBytes(k1) + SetBytes(k2)) % N, ScalarLen)

CompressPoint(p) ==
    <<IF p.Y % 2 = 0 THEN PrefixEven ELSE PrefixOdd>> \o PutUint(p.X, ScalarLen)

\* DecompressPoint: [err, point]; x is kept as read, not reduced modulo P.
DecompressPoint(compressed) ==
    IF Len(compressed) # CompressedPubKeyLen THEN [err |-> "ErrInvalidPublicKey", point |-> Infinity]
    ELSE IF compressed[1] # PrefixEven /\ compressed[1] # PrefixOdd
         THEN [err |-> "ErrInvalidPublicKey", point |-> Infinity]
    ELSE LET x == SetBytes(Tail(compressed))
             y2 == (ModExp(x, 3, P) + 7) % P
             y == ModSqrt(y2, P)
         IN  IF y = Nil THEN [err |-> "ErrInvalidPublicKey", point |-> Infinity]
             ELSE LET yIsOdd == y % 2 = 1
                      prefixIndicatesOdd == compressed[1] = PrefixOdd
                  IN  [err |-> "ok",
                       point |-> [X |-> x, Y |-> IF yIsOdd # prefixIndicatesOdd THEN P - y ELSE y]]

PrivateKeyToCompressedPublicKey(privateKey) == CompressPoint(ScalarBaseMult(privateKey))

(***************************************************************************)
(* Base58 and Base58Check (pkgs/crypto/encoding).  A string is the         *)
(* sequence of its code points; numbers are big-endian byte sequences, as  *)
(* math/big keeps them.                                                    *)
(***************************************************************************)
base58Alphabet ==
    <<49, 50, 51, 52, 53, 54, 55, 56, 57, 65, 66, 67, 68, 69, 70, 71, 72, 74, 75, 76,
      77, 78, 80, 81, 82, 83, 84, 85, 86, 87, 88, 89, 90, 97, 98, 99, 100, 101, 102,
      103, 104, 105, 106, 107, 109, 110, 111, 112, 113, 114, 115, 116, 117, 118, 119,
      120, 121, 122>>

\* alphabetMap[b], or Nil when the byte is no key of the map.
alphabetMap(b) ==
    IF \E i \in 1..Len(base58Alphabet) : base58Alphabet[i] = b
    THEN (CHOOSE i \in 1..Len(base58Alphabet) : base58Alphabet[i] = b) - 1
    ELSE Nil

RECURSIVE countLeadingZeros(_)
countLeadingZeros(data) ==
    IF data = <<>> \/ Head(data) # 0 THEN 0 ELSE 1 + countLeadingZeros(Tail(data))

reverse(data) == [i \in 1..Len(data) |-> data[Len(data) + 1 - i]]

\* big.Int.Bytes: the number without its leading zero bytes.
Bytes(num) == SubSeq(num, countLeadingZeros(num) + 1, Len(num))

\* big.Int.DivMod(num, 58): the quotient and the remainder, by long division.
\* Long division of the bytes num[lo..hi] with the remainder mod carried in.
RECURSIVE DivModRange(_, _, _, _, _)
DivModRange(num, base, lo, hi, mod) ==
    IF lo > hi THEN [q |-> <<>>, mod |-> mod]
    ELSE IF lo = hi
         THEN LET cur == mod * 256 + num[lo]
              IN  [q |-> <<cur \div base>>, mod |-> cur % base]
    ELSE LET mid == (lo + hi) \div 2
             left == DivModRange(num, base, lo, mid, mod)
             right == DivModRange(num, base, mid + 1, hi, left.mod)
         IN  [q |-> left.q \o right.q, mod |-> right.mod]

DivMod(num, base) == DivModRange(num, base, 1, Len(num), 0)

\* big.Int.Mul(num, base) followed by Add(num, val).
\* The bytes num[lo..hi], least significant first, times base plus the carry
\* val, and the carry out.
RECURSIVE MulAddRange(_, _, _, _, _)
MulAddRange(num, base, lo, hi, val) ==
    IF lo > hi THEN [bytes |-> <<>>, carry |-> val]
    ELSE IF lo = hi
         THEN LET cur == num[lo] * base + val
              IN  [bytes |-> <<cur % 256>>, carry |-> cur \div 256]
    ELSE LET mid == (lo + hi) \div 2
             low == MulAddRange(num, base, lo, mid, val)
             high == MulAddRange(num, base, mid + 1, hi, low.carry)
         IN  [bytes |-> low.bytes \o high.bytes, carry |-> high.carry]

MulAdd(num, base, val) ==
    LET r == MulAddRange(reverse(num), base, 1, Len(num), val)
    IN  Bytes(PutUint(r.carry, 2)) \o reverse(r.bytes)

\* k rounds of num.DivMod(num, 58, mod): the remainders in the order the
\* rounds produce them, and what is left of num.
RECURSIVE Base58Digits(_, _)
Base58Digits(num, k) ==
    IF k = 0 THEN [digits |-> <<>>, num |-> num]
    ELSE IF k = 1
         THEN LET dm == DivMod(num, 58)
              IN  [digits |-> <<dm.mod>>, num |-> Bytes(dm.q)]
    ELSE LET low == Base58Digits(num, k \div 2)
             high == Base58Digits(low.num, k - k \div 2)
         IN  [digits |-> low.digits \o high.digits, num |-> high.num]

\* The loop of Base58Encode runs while num > 0, which is at most twice per
\* byte of num; the rounds after num has become zero yield the digit 0 and
\* are the rounds the loop does not make.
Base58EncodeLoop(num) ==
    LET d == Base58Digits(num, 2 * Len(num)).digits
        rounds == IF \A i \in DOMAIN d : d[i] = 0 THEN 0
                  ELSE CHOOSE i \in DOMAIN d : d[i] # 0 /\ \A j \in (i + 1)..Len(d) : d[j] = 0
    IN  [i \in 1..rounds |-> base58Alphabet[d[i] + 1]]

Base58Encode(input) ==
    IF Len(input) = 0 THEN <<>>
    ELSE reverse(Base58EncodeLoop(input) \o [i \in 1..countLeadingZeros(input) |-> 49])

RECURSIVE leadingOnes(_)
leadingOnes(input) ==
    IF input = <<>> \/ Head(input) # 49 THEN 0 ELSE 1 + leadingOnes(Tail(input))

\* The digit loop of Base58Decode over input[lo..hi], entered with num: it
\* stops at the first character whose low byte is no key of alphabetMap.
RECURSIVE Base58DecodeRange(_, _, _, _)
Base58DecodeRange(input, lo, hi, num) ==
    IF lo > hi THEN [ok |-> TRUE, num |-> num]
    ELSE IF lo = hi
         THEN LET val == alphabetMap(input[lo] % 256)
              IN  IF val = Nil THEN [ok |-> FALSE, num |-> <<>>]
                  ELSE [ok |-> TRUE, num |-> MulAdd(num, 58, val)]
    ELSE LET mid == (lo + hi) \div 2
             left == Base58DecodeRange(input, lo, mid, num)
         IN  IF ~left.ok THEN left ELSE Base58DecodeRange(input, mid + 1, hi, left.num)

Base58DecodeLoop(input) == Base58DecodeRange(input, 1, Len(input), <<>>)

Base58Decode(input) ==
    IF Len(input) = 0 THEN [err |-> "ok", bytes |-> <<>>]
    ELSE LET r == Base58DecodeLoop(input)
         IN  IF ~r.ok THEN [err |-> "ErrInvalidBase58", bytes |-> <<>>]
             ELSE [err |-> "ok", bytes |-> Zeros(leadingOnes(input)) \o Bytes(r.num)]

Base58CheckEncode(input) == Base58Encode(input \o Checksum(input))

Base58CheckDecode(input) ==
    LET d == Base58Decode(input)
    IN  IF d.err # "ok" THEN d
        ELSE IF Len(d.bytes) < 4 THEN [err |-> "ErrInvalidDataLength", bytes |-> <<>>]
        ELSE IF ~VerifyChecksum(d.bytes) THEN [err |-> "ErrInvalidChecksum", bytes |-> <<>>]
        ELSE [err |-> "ok", bytes |-> SubSeq(d.bytes, 1, Len(d.bytes) - 4)]

(***************************************************************************)
(* Networks (pkgs/bip32 network.go).  A *Network is modelled by the name   *)
(* of the object it points to; "nil" is the nil pointer and "CustomNet" a  *)
(* Network value the caller built itself.                                  *)
(***************************************************************************)
NetworkRefs == {"MainNet", "TestNet", "CustomNet", "nil"}

Network(ref) ==
    CASE ref = "MainNet" -> [Name |-> "mainnet", PrivateKeyID |-> 76066276, PublicKeyID |-> 76067358]
      [] ref = "TestNet" -> [Name |-> "testnet", PrivateKeyID |-> 70615956, PublicKeyID |-> 70617039]
      [] ref = "CustomNet" -> [Name |-> "custom", PrivateKeyID |-> 27106558, PublicKeyID |-> 27108450]

DefaultNetwork == "MainNet"

NetworkFromVersion(version) ==
    IF version \in {Network("MainNet").PrivateKeyID, Network("MainNet").PublicKeyID} THEN "MainNet"
    ELSE IF version \in {Network("TestNet").PrivateKeyID, Network("TestNet").PublicKeyID} THEN "TestNet"
    ELSE "nil"

IsPrivateVersion(version) ==
    version = Network("MainNet").PrivateKeyID \/ version = Network("TestNet").PrivateKeyID

(***************************************************************************)
(* Extended keys (pkgs/bip32 key.go, derive.go, serialize.go).             *)
(***************************************************************************)
IndexBits == 16
IndexLen == IndexBits \div 8
HardenedKeyStart == 2 ^ (IndexBits - 1)
ChainCodeLen == 2
FPLen == 2
KeyLen == ScalarLen + 1
SerializedKeyLength == 4 + 1 + FPLen + IndexLen + ChainCodeLen + KeyLen

IsHardened(index) == index >= HardenedKeyStart

\* hmac.New(sha512.New, key) over data: ScalarLen + ChainCodeLen bytes, IL then IR.
HMACSHA512(key, data) == Digest(3, <<Len(key)>> \o key \o data, ScalarLen + ChainCodeLen)

\* []byte("Bitcoin seed")
BitcoinSeed == <<66, 105, 116, 99, 111, 105, 110, 32, 115, 101, 101, 100>>

\* The nil *ExtendedKey returned beside an error.
NoKey ==
    [key |-> <<>>, chainCode |-> <<>>, depth |-> 0, parentFP |-> <<>>, childIndex |-> 0,
     network |-> "nil", isPrivate |-> FALSE]

\* NewMasterKeyWithNetwork without the check of the seed's length.
NewMasterKeyAnySeed(seed, network) ==
    LET I == HMACSHA512(BitcoinSeed, seed)
    IN  [err |-> "ok",
         key |-> [key |-> <<0>> \o SubSeq(I, 1, ScalarLen), chainCode |-> SubSeq(I, ScalarLen + 1, Len(I)),
                  depth |-> 0, parentFP |-> Zeros(FPLen), childIndex |-> 0,
                  network |-> network, isPrivate |-> TRUE]]

NewMasterKeyWithNetwork(seed, network) ==
    IF Len(seed) < 16 \/ Len(seed) > 64 THEN [err |-> "ErrInvalidSeedLength", key |-> NoKey]
    ELSE LET I == HMACSHA512(BitcoinSeed, seed)
             IL == SubSeq(I, 1, ScalarLen)
             IR == SubSeq(I, ScalarLen + 1, Len(I))
         IN  IF ~IsValidPrivateKey(IL) THEN [err |-> "ErrDerivationFailed", key |-> NoKey]
             ELSE [err |-> "ok",
                   key |-> [key |-> <<0>> \o IL, chainCode |-> IR, depth |-> 0,
                            parentFP |-> Zeros(FPLen), childIndex |-> 0,
                            network |-> network, isPrivate |-> TRUE]]

PublicKeyBytes(k) ==
    IF ~k.isPrivate THEN k.key ELSE PrivateKeyToCompressedPublicKey(Tail(k.key))

PrivateKeyBytes(k) == IF ~k.isPrivate THEN <<>> ELSE Tail(k.key)

Fingerprint(k) == SubSeq(Hash160(PublicKeyBytes(k)), 1, FPLen)

buildChildData(k, index, isHardened) ==
    (IF isHardened THEN k.key ELSE PublicKeyBytes(k)) \o PutUint(index, IndexLen)

derivePrivateChildKey(parentKey, IL) ==
    LET childKeyBytes == AddPrivateKeys(parentKey, IL)
    IN  IF ~IsValidPrivateKey(childKeyBytes) THEN [err |-> "ErrDerivationFailed", key |-> <<>>]
        ELSE [err |-> "ok", key |-> <<0>> \o childKeyBytes]

\* derivePublicChildKey without the addition of the parent's point: the
\* derivation that the agreement of private and public derivation rules out.
derivePublicChildKeyUnadded(parentPubKey, IL) ==
    LET parent == DecompressPoint(parentPubKey)
    IN  IF parent.err # "ok" THEN [err |-> "ErrDerivationFailed", key |-> <<>>]
        ELSE [err |-> "ok", key |-> CompressPoint(ScalarBaseMult(IL))]

derivePublicChildKey(parentPubKey, IL) ==
    LET parent == DecompressPoint(parentPubKey)
    IN  IF parent.err # "ok" THEN [err |-> "ErrDerivationFailed", key |-> <<>>]
        ELSE LET childPoint == Add(ScalarBaseMult(IL), parent.point)
             IN  IF childPoint = NilDeref THEN [err |-> "panic", key |-> <<>>]
                 ELSE IF IsInfinity(childPoint) THEN [err |-> "ErrDerivationFailed", key |-> <<>>]
                 ELSE [err |-> "ok", key |-> CompressPoint(childPoint)]

deriveChildKey(k, IL) ==
    IF k.isPrivate THEN derivePrivateChildKey(Tail(k.key), IL)
    ELSE derivePublicChildKey(k.key, IL)

\* Child without the guard on hardened derivation from a public key.
ChildUnguarded(k, index) ==
    LET isHardened == IsHardened(index)
        data == buildChildData(k, index, isHardened)
        I == HMACSHA512(k.chainCode, data)
        IL == SubSeq(I, 1, ScalarLen)
        IR == SubSeq(I, ScalarLen + 1, Len(I))
    IN  IF ~IsValidPrivateKey(IL) THEN [err |-> "ErrDerivationFailed", key |-> NoKey]
        ELSE LET childKey == deriveChildKey(k, IL)
             IN  IF childKey.err # "ok" THEN [err |-> childKey.err, key |-> NoKey]
                 ELSE [err |-> "ok",
                       key |-> [key |-> childKey.key, chainCode |-> IR,
                                depth |-> (k.depth + 1) % 256,
                                parentFP |-> Fingerprint(k), childIndex |-> index,
                                network |-> k.network, isPrivate |-> k.isPrivate]]

Child(k, index) ==
    LET isHardened == IsHardened(index)
    IN  IF ~k.isPrivate /\ isHardened THEN [err |-> "ErrHardenedFromPublic", key |-> NoKey]
        ELSE LET data == buildChildData(k, index, isHardened)
                 I == HMACSHA512(k.chainCode, data)
                 IL == SubSeq(I, 1, ScalarLen)
                 IR == SubSeq(I, ScalarLen + 1, Len(I))
             IN  IF ~IsValidPrivateKey(IL) THEN [err |-> "ErrDerivationFailed", key |-> NoKey]
                 ELSE LET childKey == deriveChildKey(k, IL)
                      IN  IF childKey.err # "ok" THEN [err |-> childKey.err, key |-> NoKey]
                          ELSE [err |-> "ok",
                                key |-> [key |-> childKey.key, chainCode |-> IR,
                                         depth |-> (k.depth + 1) % 256,
                                         parentFP |-> Fingerprint(k), childIndex |-> index,
                                         network |-> k.network, isPrivate |-> k.isPrivate]]

clone(k) == k

Neuter(k) ==
    IF ~k.isPrivate THEN clone(k)
    ELSE [key |-> PublicKeyBytes(k), chainCode |-> k.chainCode, depth |-> k.depth,
          parentFP |-> k.parentFP, childIndex |-> k.childIndex, network |-> k.network,
          isPrivate |-> FALSE]

\* getVersion dereferences k.network: a nil network is a nil pointer dereference.
getVersion(k) ==
    IF k.network = "nil" THEN Nil
    ELSE IF k.isPrivate THEN Network(k.network).PrivateKeyID
    ELSE Network(k.network).PublicKeyID

Serialize(k) ==
    IF getVersion(k) = Nil THEN [err |-> "panic", bytes |-> <<>>]
    ELSE [err |-> "ok",
          bytes |-> PutUint(getVersion(k), 4) \o <<k.depth>> \o k.parentFP
                    \o PutUint(k.childIndex, IndexLen) \o k.chainCode \o k.key]

String(k) ==
    LET b == Serialize(k)
    IN  IF b.err # "ok" THEN [err |-> b.err, str |-> <<>>]
        ELSE [err |-> "ok", str |-> Base58CheckEncode(b.bytes)]

DeserializeExtendedKey(data) ==
    IF Len(data) # SerializedKeyLength THEN [err |-> "ErrInvalidSerializedKey", key |-> NoKey]
    ELSE LET version == SetBytes(SubSeq(data, 1, 4))
             fpEnd == 5 + FPLen
             idxEnd == fpEnd + IndexLen
             ccEnd == idxEnd + ChainCodeLen
             network == NetworkFromVersion(version)
         IN  [err |-> "ok",
              key |-> [key |-> SubSeq(data, ccEnd + 1, SerializedKeyLength),
                       chainCode |-> SubSeq(data, idxEnd + 1, ccEnd),
                       depth |-> data[5],
                       parentFP |-> SubSeq(data, 6, fpEnd),
                       childIndex |-> SetBytes(SubSeq(data, fpEnd + 1, idxEnd)),
                       network |-> IF network = "nil" THEN DefaultNetwork ELSE network,
                       isPrivate |-> IsPrivateVersion(version)]]

ParseExtendedKey(encoded) ==
    LET decoded == Base58CheckDecode(encoded)
    IN  IF decoded.err # "ok" THEN [err |-> decoded.err, key |-> NoKey]
        ELSE DeserializeExtendedKey(decoded.bytes)

(***************************************************************************)
(* SS58 decoding (pkgs/address polkadot.go) with the address package's     *)
(* Base58 decoder.                                                         *)
(***************************************************************************)
\* Base58Encoder.Decode with the Bitcoin alphabet.
Decode(str) ==
    IF Len(str) = 0 THEN [err |-> "ok", bytes |-> <<>>]
    ELSE LET r == Base58DecodeLoop(str)
         IN  IF ~r.ok THEN [err |-> "invalid character", bytes |-> <<>>]
             ELSE [err |-> "ok", bytes |-> Zeros(leadingOnes(str)) \o Bytes(r.num)]

\* PolkadotAddress.DecodeAddress: the error it returns, "ok", or "panic" for an
\* index out of range.  The account key takes ScalarLen bytes.
DecodeAddress(address) ==
    LET d == Decode(address)
        decoded == d.bytes
    IN  IF d.err # "ok" THEN d.err
        ELSE IF Len(decoded) < 1 THEN "panic"
        ELSE IF decoded[1] >= 128 THEN "ErrInvalidVersion"
        ELSE IF decoded[1] >= 64 /\ Len(decoded) < 2 THEN "panic"
        ELSE LET prefixLen == IF decoded[1] < 64 THEN 1 ELSE 2
             IN  IF Len(decoded) # prefixLen + ScalarLen + 2 THEN "ErrInvalidAddress" ELSE "ok"

(***************************************************************************)
(* The shared registries and their concurrent callers.  coinRegistry is    *)
(* the package-level map of pkgs/bip44 (coin type -> symbol), generators   *)
(* the map of one Factory (chain id -> constructor of its generator).      *)
(* Neither is guarded by a lock.  procs[p] is what goroutine p is doing: a *)
(* call is in the map between its begin step and its end step.             *)
(***************************************************************************)
NumProcs == 2

Procs == 1..NumProcs

\* RegisterCoin: coinRegistry[info.Type] = info
RegisterCoin(registry, info) ==
    [t \in DOMAIN registry \cup {info.Type} |-> IF t = info.Type THEN info.Symbol ELSE registry[t]]

\* GetCoinInfo: the symbol of the registered coin, "nil" when there is none.
GetCoinInfo(registry, coinType) ==
    IF coinType \in DOMAIN registry THEN registry[coinType] ELSE "nil"

\* ListCoins: the registered entries.
ListCoins(registry) == {[Type |-> t, Symbol |-> registry[t]] : t \in DOMAIN registry}

\* Register leaving a chain that has a generator as it is.
RegisterIfAbsent(gens, chainID, generator) ==
    [c \in DOMAIN gens \cup {chainID} |-> IF c \in DOMAIN gens THEN gens[c] ELSE generator]

\* Factory.Register: f.generators[chainID] = generator
Register(gens, chainID, generator) ==
    [c \in DOMAIN gens \cup {chainID} |-> IF c = chainID THEN generator ELSE gens[c]]

\* Factory.Get: the generator, or ErrUnsupportedChain.
Get(gens, chainID) ==
    IF chainID \in DOMAIN gens THEN [err |-> "ok", gen |-> gens[chainID]]
    ELSE [err |-> "ErrUnsupportedChain", gen |-> "nil"]

\* registerDefaults, as the pairs it registers.
DefaultGenerators ==
    {<<"btc", "NewBitcoinAddress">>, <<"ltc", "NewLitecoinAddress">>,
     <<"doge", "NewDogecoinAddress">>, <<"bch", "NewBitcoinCashAddress">>,
     <<"eth", "NewEthereumAddress">>, <<"bsc", "NewEVMAddress">>,
     <<"matic", "NewEVMAddress">>, <<"ftm", "NewEVMAddress">>, <<"op", "NewEVMAddress">>,
     <<"arb", "NewEVMAddress">>, <<"vet", "NewEVMAddress">>, <<"theta", "NewEVMAddress">>,
     <<"etc", "NewEVMAddress">>, <<"avax", "NewAvalancheCChainAddress">>,
     <<"atom", "NewCosmosAddress">>, <<"bnb", "NewBinanceBEP2Address">>,
     <<"sei", "NewSeiAddress">>, <<"trx", "NewTronAddress">>, <<"xrp", "NewRippleAddress">>,
     <<"sol", "NewSolanaAddress">>, <<"xlm", "NewStellarAddress">>,
     <<"algo", "NewAlgorandAddress">>, <<"near", "NewNEARAddress">>,
     <<"ada", "NewCardanoAddress">>, <<"dot", "NewPolkadotAddress">>,
     <<"apt", "NewAptosAddress">>, <<"sui", "NewSuiAddress">>}

registerDefaults ==
    [c \in {d[1] : d \in DefaultGenerators} |->
        (CHOOSE d \in DefaultGenerators : d[1] = c)[2]]

\* The map literal coinRegistry is initialized with.
DefaultCoins ==
    {<<0, "BTC">>, <<1, "TEST">>, <<2, "LTC">>, <<3, "DOGE">>, <<5, "DASH">>, <<60, "ETH">>,
     <<61, "ETC">>, <<144, "XRP">>, <<145, "BCH">>, <<148, "XLM">>, <<195, "TRX">>,
     <<714, "BNB">>, <<501, "SOL">>, <<966, "MATIC">>, <<9000, "AVAX">>}

InitialCoinRegistry ==
    [t \in {d[1] : d \in DefaultCoins} |-> (CHOOSE d \in DefaultCoins : d[1] = t)[2]]

CoinInputs == {[Type |-> 0, Symbol |-> "XBT"], [Type |-> 777, Symbol |-> "NEW"]}

ChainInputs == {"btc", "xtz"}

Idle == [pc |-> "idle", op |-> "none", coin |-> [Type |-> 0, Symbol |-> ""], chain |-> "",
         raced |-> FALSE]

Crashed == [Idle EXCEPT !.pc = "crashed"]

SharedObject(op) ==
    IF op \in {"GetCoinInfo", "ListCoins", "RegisterCoin"} THEN "coinRegistry" ELSE "generators"

IsWrite(op) == op \in {"RegisterCoin", "Register"}

\* Two calls conflict when they are in the same map and one of them writes it.
Conflict(op1, op2) ==
    /\ SharedObject(op1) = SharedObject(op2)
    /\ IsWrite(op1) \/ IsWrite(op2)

(***************************************************************************)
(* The BIP-39 mnemonic codec (pkgs/bip39).  The entries of the English     *)
(* word list are data: 2048 distinct words of lower-case letters, here the *)
(* numerals 0..2047 written in base 26 with the digits a..z.               *)
(***************************************************************************)
WordListSize == 2048

RECURSIVE Numeral(_)
Numeral(n) == IF n < 26 THEN <<97 + n>> ELSE Numeral(n \div 26) \o <<97 + (n % 26)>>

englishWords == [i \in 1..WordListSize |-> Numeral(i - 1)]

\* newWordList: the words and the map from each word to its index; the loop
\* fills the map in the order of the list, so the last index of a word stays.
newWordList(words) ==
    [words |-> words,
     wordMap |-> [word \in {words[i] : i \in DOMAIN words} |->
                     (CHOOSE i \in DOMAIN words :
                          words[i] = word /\ \A j \in (i + 1)..Len(words) : words[j] # word) - 1]]

English == newWordList(englishWords)

DefaultWordList == English

\* WordAt reading the entry after the one asked for.
WordAtNext(w, index) == w.words[((index + 1) % Len(w.words)) + 1]

\* wordListImpl.WordAt: w.words[index]
WordAt(w, index) == w.words[index + 1]

\* wordListImpl.WordIndex: the entry of wordMap, or -1.
WordIndex(w, word) == IF word \in DOMAIN w.wordMap THEN w.wordMap[word] ELSE -1

ValidEntropyBits == {128, 160, 192, 224, 256}

isValidEntropyBits(bits) == bits \in ValidEntropyBits

isValidWordCount(count) == count \in {12, 15, 18, 21, 24}

RECURSIVE SumRange(_, _, _)
SumRange(f, lo, hi) ==
    IF lo > hi THEN 0
    ELSE IF lo = hi THEN f[lo]
    ELSE LET mid == (lo + hi) \div 2 IN SumRange(f, lo, mid) + SumRange(f, mid + 1, hi)

\* strings.Join
RECURSIVE JoinRange(_, _, _, _)
JoinRange(elems, sep, lo, hi) ==
    IF lo > hi THEN <<>>
    ELSE IF lo = hi THEN elems[lo]
    ELSE LET mid == (lo + hi) \div 2
         IN  JoinRange(elems, sep, lo, mid) \o sep \o JoinRange(elems, sep, mid + 1, hi)

Join(elems, sep) == JoinRange(elems, sep, 1, Len(elems))

\* unicode.IsSpace
IsSpace(c) == c \in {9, 10, 11, 12, 13, 32, 133, 160, 5760, 8232, 8233, 8239, 8287, 12288}
                    \/ (c >= 8192 /\ c <= 8202)

\* strings.Fields: the maximal runs of characters that are no white space.
Fields(str) ==
    LET starts == {i \in DOMAIN str : ~IsSpace(str[i]) /\ (i = 1 \/ IsSpace(str[i - 1]))}
        end(i) == CHOOSE j \in i..Len(str) :
                      /\ \A m \in i..j : ~IsSpace(str[m])
                      /\ (j = Len(str) \/ IsSpace(str[j + 1]))
        start(n) == CHOOSE i \in starts : Cardinality({m \in starts : m < i}) = n - 1
    IN  [n \in 1..Cardinality(starts) |-> SubSeq(str, start(n), end(start(n)))]

\* bit i (from 0) of data, most significant bit of each byte first
ByteBit(data, i) == (data[(i \div 8) + 1] \div (2 ^ (7 - (i % 8)))) % 2 = 1

NewMnemonicWithWordList(entropy, wordList) ==
    LET entropyBits == Len(entropy) * 8
        hash == SHA256(entropy)
        checksumBits == entropyBits \div 32
        totalBits == entropyBits + checksumBits
        bits == [i \in 0..(totalBits - 1) |->
                    IF i < entropyBits THEN ByteBit(entropy, i)
                    ELSE ByteBit(hash, i - entropyBits)]
        wordCount == totalBits \div 11
        index(i) == SumRange([j \in 0..10 |-> IF bits[i * 11 + j] THEN 2 ^ (10 - j) ELSE 0], 0, 10)
    IN  IF ~isValidEntropyBits(entropyBits)
        THEN [err |-> "ErrInvalidEntropyLength", str |-> <<>>]
        ELSE [err |-> "ok",
              str |-> Join([i \in 1..wordCount |-> WordAt(wordList, index(i - 1))], <<32>>)]

\* The decoder looking the words up before it counts them.
MnemonicToEntropyWordsFirst(mnemonic, wordList) ==
    LET words == Fields(mnemonic)
    IN  IF \E i \in DOMAIN words : WordIndex(wordList, words[i]) = -1
        THEN [err |-> "ErrInvalidMnemonic", bytes |-> <<>>]
        ELSE IF ~isValidWordCount(Len(words))
        THEN [err |-> "ErrInvalidMnemonicLength", bytes |-> <<>>]
        ELSE [err |-> "ErrInvalidChecksum", bytes |-> <<>>]

MnemonicToEntropyWithWordList(mnemonic, wordList) ==
    LET words == Fields(mnemonic)
        wordCount == Len(words)
        totalBits == wordCount * 11
        indices == [i \in 1..wordCount |-> WordIndex(wordList, words[i])]
        bits == [k \in 0..(totalBits - 1) |->
                    (indices[(k \div 11) + 1] \div (2 ^ (10 - (k % 11)))) % 2 = 1]
        checksumBits == wordCount \div 3
        entropyBits == totalBits - checksumBits
        entropy == [b \in 1..(entropyBits \div 8) |->
                       SumRange([i \in 0..7 |-> IF bits[(b - 1) * 8 + i] THEN 2 ^ (7 - i) ELSE 0],
                                0, 7)]
        hash == SHA256(entropy)
    IN  IF ~isValidWordCount(wordCount)
        THEN [err |-> "ErrInvalidMnemonicLength", bytes |-> <<>>]
        ELSE IF \E i \in 1..wordCount : indices[i] = -1
             THEN [err |-> "ErrInvalidMnemonic", bytes |-> <<>>]
        ELSE IF \E i \in 0..(checksumBits - 1) : bits[entropyBits + i] # ByteBit(hash, i)
             THEN [err |-> "ErrInvalidChecksum", bytes |-> <<>>]
        ELSE [err |-> "ok", bytes |-> entropy]

NoMnemonic ==
    [phase |-> "none", entropy |-> <<>>, err |-> "ok", mnemonic |-> <<>>,
     derr |-> "ok", decoded |-> <<>>]

(***************************************************************************)
(* Derivation paths: the BIP-32 path parser (pkgs/bip32) and the BIP-44    *)
(* path value with its parser (pkgs/bip44).  Strings are sequences of      *)
(* character codes; an index has IndexBits bits.                           *)
(***************************************************************************)
Slash == 47
Apostrophe == 39
LowerH == 104
UpperH == 72
LowerM == 109
UpperM == 77

\* strings.TrimSpace
TrimSpace(str) ==
    LET kept == {i \in DOMAIN str : ~IsSpace(str[i])}
    IN  IF kept = {} THEN <<>>
        ELSE SubSeq(str, CHOOSE i \in kept : \A j \in kept : i <= j,
                         CHOOSE i \in kept : \A j \in kept : i >= j)

\* strings.HasPrefix, strings.HasSuffix, strings.TrimSuffix
HasPrefix(str, prefix) == Len(str) >= Len(prefix) /\ SubSeq(str, 1, Len(prefix)) = prefix

HasSuffix(str, suffix) ==
    Len(str) >= Len(suffix) /\ SubSeq(str, Len(str) - Len(suffix) + 1, Len(str)) = suffix

TrimSuffix(str, suffix) ==
    IF HasSuffix(str, suffix) THEN SubSeq(str, 1, Len(str) - Len(suffix)) ELSE str

\* strings.Split by a separator of one character: one part more than there
\* are separators, empty parts included.
Split(str, sep) ==
    LET at == {i \in DOMAIN str : str[i] = sep}
        bound(n) == IF n = 0 THEN 0
                    ELSE IF n > Cardinality(at) THEN Len(str) + 1
                    ELSE CHOOSE i \in at : Cardinality({j \in at : j < i}) = n - 1
    IN  [n \in 1..(Cardinality(at) + 1) |-> SubSeq(str, bound(n - 1) + 1, bound(n) - 1)]

\* The value of a string of decimal digits, or 2^IndexBits when it is larger
\* than an index can be.
RECURSIVE DecimalValue(_)
DecimalValue(digits) ==
    IF digits = <<>> THEN 0
    ELSE LET v == DecimalValue(SubSeq(digits, 1, Len(digits) - 1)) * 10 + (digits[Len(digits)] - 48)
         IN  IF v > 2 ^ IndexBits THEN 2 ^ IndexBits ELSE v

\* strconv.ParseUint(s, 10, bits of an index): digits only, at least one, and
\* a value that fits.
ParseUint(str) ==
    IF str = <<>> \/ \E i \in DOMAIN str : str[i] < 48 \/ str[i] > 57
    THEN [err |-> "ErrSyntax", val |-> 0]
    ELSE IF DecimalValue(str) >= 2 ^ IndexBits
    THEN [err |-> "ErrRange", val |-> 2 ^ IndexBits - 1]
    ELSE [err |-> "ok", val |-> DecimalValue(str)]

\* bip32.Hardened: index + HardenedKeyStart in the width of an index
Hardened(index) == (index + HardenedKeyStart) % (2 ^ IndexBits)

parsePathComponent(part) ==
    LET hardened == HasSuffix(part, <<Apostrophe>>) \/ HasSuffix(part, <<LowerH>>)
                        \/ HasSuffix(part, <<UpperH>>)
        digits == IF hardened THEN SubSeq(part, 1, Len(part) - 1) ELSE part
        r == ParseUint(digits)
    IN  IF r.err # "ok" THEN [err |-> "ErrInvalidPath", index |-> 0]
        ELSE IF hardened /\ r.val >= HardenedKeyStart THEN [err |-> "ErrInvalidPath", index |-> 0]
        ELSE [err |-> "ok", index |-> IF hardened THEN r.val + HardenedKeyStart ELSE r.val]

\* bip32.ParsePath: empty parts are skipped, the first failing part ends the call.
ParsePath(str) ==
    LET trimmed == TrimSpace(str)
        rest == IF HasPrefix(trimmed, <<LowerM, Slash>>) \/ HasPrefix(trimmed, <<UpperM, Slash>>)
                THEN SubSeq(trimmed, 3, Len(trimmed)) ELSE trimmed
        parts == SelectSeq(Split(rest, Slash), LAMBDA part : part # <<>>)
    IN  IF trimmed = <<>> \/ trimmed = <<LowerM>> \/ trimmed = <<UpperM>>
        THEN [err |-> "ok", path |-> <<>>]
        ELSE IF \E i \in DOMAIN parts : parsePathComponent(parts[i]).err # "ok"
        THEN [err |-> "ErrInvalidPath", path |-> <<>>]
        ELSE [err |-> "ok", path |-> [i \in DOMAIN parts |-> parsePathComponent(parts[i]).index]]

\* fmt %d
RECURSIVE Decimal(_)
Decimal(n) == IF n < 10 THEN <<48 + n>> ELSE Decimal(n \div 10) \o <<48 + (n % 10)>>

\* DerivationPath.String
PathString(p) ==
    Join(<<<<LowerM>>>> \o [i \in DOMAIN p |->
                               IF IsHardened(p[i]) THEN Decimal(p[i] - HardenedKeyStart) \o <<Apostrophe>>
                               ELSE Decimal(p[i])],
         <<Slash>>)

\* The BIP-49 purpose in the place of the BIP-44 one.
PurposeSegwit == 49

Purpose == 44
ExternalChain == 0
InternalChain == 1

NoPath == [Purpose |-> -1, CoinType |-> -1, Account |-> -1, Change |-> -1, AddressIndex |-> -1]

NewPath(coinType, account, change, addressIndex) ==
    [Purpose |-> Purpose, CoinType |-> coinType, Account |-> account, Change |-> change,
     AddressIndex |-> addressIndex]

DefaultPath(coinType) == NewPath(coinType, 0, ExternalChain, 0)

\* Path.String: m/purpose'/coin'/account'/change/index
Bip44String(p) ==
    <<LowerM, Slash>> \o Decimal(p.Purpose) \o <<Apostrophe, Slash>>
        \o Decimal(p.CoinType) \o <<Apostrophe, Slash>> \o Decimal(p.Account) \o <<Apostrophe, Slash>>
        \o Decimal(p.Change) \o <<Slash>> \o Decimal(p.AddressIndex)

ToBIP32Path(p) ==
    <<Hardened(p.Purpose), Hardened(p.CoinType), Hardened(p.Account), p.Change, p.AddressIndex>>

WithAccount(p, account) == [p EXCEPT !.Account = account]

WithChange(p, change) == [p EXCEPT !.Change = change]

WithAddressIndex(p, index) == [p EXCEPT !.AddressIndex = index]

\* Path.Next: AddressIndex + 1 in the width of an index
NextPath(p) == WithAddressIndex(p, (p.AddressIndex + 1) % (2 ^ IndexBits))

parseHardenedIndex(str) ==
    LET s == TrimSpace(str)
    IN  IF ~HasSuffix(s, <<Apostrophe>>) /\ ~HasSuffix(s, <<LowerH>>)
        THEN [err |-> "expected hardened index", val |-> 0]
        ELSE ParseUint(TrimSuffix(TrimSuffix(s, <<Apostrophe>>), <<LowerH>>))

parseIndex(str) ==
    LET s == TrimSpace(str)
    IN  IF HasSuffix(s, <<Apostrophe>>) \/ HasSuffix(s, <<LowerH>>)
        THEN [err |-> "unexpected hardened index", val |-> 0]
        ELSE ParseUint(s)

\* ParsePath taking every number as the change component.
Bip44ParsePathAnyChange(str) ==
    LET trimmed == TrimSpace(str)
        parts == Split(SubSeq(trimmed, 3, Len(trimmed)), Slash)
        hardened == [i \in 1..3 |-> parseHardenedIndex(parts[i])]
        plain == [i \in 4..5 |-> parseIndex(parts[i])]
    IN  IF \/ ~HasPrefix(trimmed, <<LowerM, Slash>>) \/ Len(parts) # 5
           \/ \E i \in 1..3 : hardened[i].err # "ok"
           \/ \E i \in 4..5 : plain[i].err # "ok"
           \/ hardened[1].val # Purpose
        THEN [err |-> "ErrInvalidPath", path |-> NoPath]
        ELSE [err |-> "ok", path |-> [NewPath(hardened[2].val, hardened[3].val, plain[4].val, plain[5].val)
                                         EXCEPT !.Purpose = hardened[1].val]]

\* The path value the caller holds (NoPath: none) and the number of builder
\* calls that led to it.
Held(value, steps) == [value |-> value, steps |-> steps]

\* bip44.ParsePath
Bip44ParsePath(str) ==
    LET trimmed == TrimSpace(str)
        parts == Split(SubSeq(trimmed, 3, Len(trimmed)), Slash)
        purpose == parseHardenedIndex(parts[1])
        coinType == parseHardenedIndex(parts[2])
        account == parseHardenedIndex(parts[3])
        change == parseIndex(parts[4])
        addressIndex == parseIndex(parts[5])
        fail(e) == [err |-> e, path |-> NoPath]
    IN  IF ~HasPrefix(trimmed, <<LowerM, Slash>>) THEN fail("ErrInvalidPath")
        ELSE IF Len(parts) # 5 THEN fail("ErrInvalidPath")
        ELSE IF purpose.err # "ok" \/ purpose.val # Purpose THEN fail("ErrInvalidPurpose")
        ELSE IF coinType.err # "ok" THEN fail("invalid coin type")
        ELSE IF account.err # "ok" THEN fail("invalid account")
        ELSE IF change.err # "ok" THEN fail("invalid change")
        ELSE IF change.val > 1 THEN fail("ErrInvalidChange")
        ELSE IF addressIndex.err # "ok" THEN fail("invalid address index")
        ELSE [err |-> "ok",
              path |-> [Purpose |-> purpose.val, CoinType |-> coinType.val, Account |-> account.val,
                        Change |-> change.val, AddressIndex |-> addressIndex.val]]

(***************************************************************************)
(* Wallets and accounts (pkgs/bip44): a wallet holds the master key, an    *)
(* account the key at m/44'/coin'/account'.                                *)
(***************************************************************************)
\* ExtendedKey.DeriveFromPath: Child along the path, the first error ends it.
RECURSIVE DeriveFromPath(_, _)
DeriveFromPath(k, p) ==
    LET rest(child) == IF child.err # "ok" THEN [err |-> child.err, key |-> NoKey]
                       ELSE DeriveFromPath(child.key, Tail(p))
    IN  IF p = <<>> THEN [err |-> "ok", key |-> k] ELSE rest(Child(k, Head(p)))

DeriveFromPathString(k, pathStr) ==
    LET parsed(p) == IF p.err # "ok" THEN [err |-> p.err, key |-> NoKey] ELSE DeriveFromPath(k, p.path)
    IN  parsed(ParsePath(pathStr))

\* Wallet.DeriveKey: the master key along the parsed text of the path
DeriveKey(masterKey, p) == DeriveFromPathString(masterKey, Bip44String(p))

\* Path.AccountPath: m/purpose'/coin'/account'
AccountPath(p) ==
    <<LowerM, Slash>> \o Decimal(p.Purpose) \o <<Apostrophe, Slash>>
        \o Decimal(p.CoinType) \o <<Apostrophe, Slash>> \o Decimal(p.Account) \o <<Apostrophe>>

NewWalletFromSeed(seed) ==
    LET master == NewMasterKeyWithNetwork(seed, DefaultNetwork)
    IN  [err |-> master.err, masterKey |-> master.key]

NoAccount == [coinType |-> 0, index |-> 0, accountKey |-> NoKey]

NewAccount(coinType, index, accountKey) ==
    [coinType |-> coinType, index |-> index, accountKey |-> accountKey]

\* Wallet.DeriveAccount
DeriveAccount(masterKey, coinType, accountIndex) ==
    LET from(accountKey) ==
            IF accountKey.err # "ok" THEN [err |-> accountKey.err, account |-> NoAccount]
            ELSE [err |-> "ok", account |-> NewAccount(coinType, accountIndex, accountKey.key)]
    IN  from(DeriveFromPathString(masterKey, AccountPath(NewPath(coinType, accountIndex, 0, 0))))

\* Account.DeriveAddress: account / change / index
DeriveAddress(a, change, index) ==
    LET from(changeKey) == IF changeKey.err # "ok" THEN [err |-> changeKey.err, key |-> NoKey]
                           ELSE Child(changeKey.key, index)
    IN  from(Child(a.accountKey, change))

\* DeriveAddresses taking every second index.
DeriveAddressesSkipping(a, change, startIndex, count) ==
    LET collect(addr) ==
            IF \E i \in 0..(count - 1) : addr[i].err # "ok"
            THEN [err |-> "ErrDerivationFailed", keys |-> <<>>]
            ELSE [err |-> "ok", keys |-> [n \in 1..count |-> addr[n - 1].key]]
        from(changeKey) ==
            IF changeKey.err # "ok" THEN [err |-> changeKey.err, keys |-> <<>>]
            ELSE collect([i \in 0..(count - 1) |->
                             Child(changeKey.key, (startIndex + 2 * i) % (2 ^ IndexBits))])
    IN  from(Child(a.accountKey, change))

\* Account.DeriveAddresses: the change key once, then the children at
\* startIndex + i in the width of an index; the first error ends the call.
DeriveAddresses(a, change, startIndex, count) ==
    LET failed(addr) == {i \in 0..(count - 1) : addr[i].err # "ok"}
        collect(addr) ==
            IF failed(addr) # {}
            THEN [err |-> addr[CHOOSE i \in failed(addr) : \A j \in failed(addr) : i <= j].err,
                  keys |-> <<>>]
            ELSE [err |-> "ok", keys |-> [n \in 1..count |-> addr[n - 1].key]]
        from(changeKey) ==
            IF changeKey.err # "ok" THEN [err |-> changeKey.err, keys |-> <<>>]
            ELSE collect([i \in 0..(count - 1) |->
                             Child(changeKey.key, (startIndex + i) % (2 ^ IndexBits))])
    IN  from(Child(a.accountKey, change))

\* The wallet of the caller: its master key, the account it derived and the
\* bulk derivations it has made on the account.
NoWallet == [masterKey |-> NoKey, account |-> NoAccount, log |-> <<>>]

(***************************************************************************)
(* SLIP-10 derivation for Ed25519 (package ed25519): a walker over a seed  *)
(* and a list of indices, apart from the extended keys.  A private key has *)
(* ScalarLen bytes; the public key of the library's ed25519 is a fixed     *)
(* function of it.                                                         *)
(***************************************************************************)
\* []byte("ed25519 seed")
Ed25519Seed == <<101, 100, 50, 53, 53, 49, 57, 32, 115, 101, 101, 100>>

\* hmacSHA512 of the package: HMAC-SHA-512 written out over sha512
hmacSHA512(key, data) == HMACSHA512(key, data)

\* PrivateKeyToPublicKey: ed25519.NewKeyFromSeed(privateKey).Public()
PrivateKeyToPublicKey(privateKey) ==
    IF Len(privateKey) # ScalarLen THEN [err |-> "ErrInvalidPrivateKey", key |-> <<>>]
    ELSE [err |-> "ok", key |-> Digest(5, privateKey, ScalarLen)]

slip10MasterKey(seed) ==
    LET h == hmacSHA512(Ed25519Seed, seed)
    IN  [key |-> SubSeq(h, 1, ScalarLen), chainCode |-> SubSeq(h, ScalarLen + 1, Len(h))]

slip10DeriveChild(key, chainCode, index) ==
    LET h == hmacSHA512(chainCode, <<0>> \o key \o PutUint(index, IndexLen))
    IN  [key |-> SubSeq(h, 1, ScalarLen), chainCode |-> SubSeq(h, ScalarLen + 1, Len(h))]

\* The loop of DeriveKeyFromPath: an index below HardenedKeyStart is made hardened.
RECURSIVE slip10Walk(_, _)
slip10Walk(node, p) ==
    IF p = <<>> THEN node
    ELSE LET index == IF Head(p) < HardenedKeyStart THEN Head(p) + HardenedKeyStart ELSE Head(p)
             child == slip10DeriveChild(node.key, node.chainCode, index)
         IN  slip10Walk(child, Tail(p))

\* The loop deriving at the indices as they are passed.
RECURSIVE slip10WalkUnpromoted(_, _)
slip10WalkUnpromoted(node, p) ==
    IF p = <<>> THEN node
    ELSE LET child == slip10DeriveChild(node.key, node.chainCode, Head(p))
         IN  slip10WalkUnpromoted(child, Tail(p))

\* DeriveKeyFromPath deriving at the indices as they are passed.
DeriveKeyFromPathUnpromoted(seed, p) ==
    IF Len(seed) < 16 THEN [err |-> "seed must be at least 16 bytes", key |-> <<>>, publicKey |-> <<>>]
    ELSE LET leaf == slip10WalkUnpromoted(slip10MasterKey(seed), p)
             publicKey == PrivateKeyToPublicKey(leaf.key)
         IN  IF publicKey.err # "ok" THEN [err |-> publicKey.err, key |-> <<>>, publicKey |-> <<>>]
             ELSE [err |-> "ok", key |-> leaf.key, publicKey |-> publicKey.key]

DeriveKeyFromPath(seed, p) ==
    IF Len(seed) < 16 THEN [err |-> "seed must be at least 16 bytes", key |-> <<>>, publicKey |-> <<>>]
    ELSE LET leaf == slip10Walk(slip10MasterKey(seed), p)
             publicKey == PrivateKeyToPublicKey(leaf.key)
         IN  IF publicKey.err # "ok" THEN [err |-> publicKey.err, key |-> <<>>, publicKey |-> <<>>]
             ELSE [err |-> "ok", key |-> leaf.key, publicKey |-> publicKey.key]

(***************************************************************************)
(* Address codecs (package address): the Validate method of the NEAR, EOS, *)
(* Solana, Sui, Aptos, Flow and Hedera codecs.  An address is a sequence   *)
(* of character codes.  The Base58 decoder of the package is the algorithm *)
(* of Base58Decode over the same alphabet.  A public key has its real      *)
(* length; a RIPEMD-160 checksum is the first ChecksumLen bytes of the     *)
(* digest.                                                                 *)
(***************************************************************************)
IsDigit(c) == c >= 48 /\ c <= 57

IsLowerOrDigit(c) == (c >= 97 /\ c <= 122) \/ IsDigit(c)

IsHexDigit(c) == IsDigit(c) \/ (c >= 97 /\ c <= 102) \/ (c >= 65 /\ c <= 70)

\* strings.TrimPrefix
TrimPrefix(str, prefix) ==
    IF HasPrefix(str, prefix) THEN SubSeq(str, Len(prefix) + 1, Len(str)) ELSE str

\* hex.DecodeString: an error for an odd length or a character that is no
\* hexadecimal digit.
HexDecodeString(str) ==
    LET val(c) == IF IsDigit(c) THEN c - 48 ELSE IF c >= 97 THEN c - 87 ELSE c - 55
    IN  IF Len(str) % 2 # 0 \/ \E i \in DOMAIN str : ~IsHexDigit(str[i])
        THEN [err |-> "ErrHex", bytes |-> <<>>]
        ELSE [err |-> "ok",
              bytes |-> [i \in 1..(Len(str) \div 2) |-> 16 * val(str[2 * i - 1]) + val(str[2 * i])]]

\* The lower-case hexadecimal form of bytes (hex.EncodeToString).
HexEncodeToString(bytes) ==
    LET digit(v) == IF v < 10 THEN 48 + v ELSE 87 + v
    IN  [i \in 1..(2 * Len(bytes)) |->
            IF i % 2 = 1 THEN digit(bytes[(i + 1) \div 2] \div 16) ELSE digit(bytes[i \div 2] % 16)]

\* NEARAddress.Generate
NEARGenerate(publicKey) ==
    IF Len(publicKey) # 32 THEN [err |-> "ErrPublicKeyLength", address |-> <<>>]
    ELSE [err |-> "ok", address |-> HexEncodeToString(publicKey)]

\* NEARAddress.ValidateImplicit
NEARValidateImplicit(address) == Len(address) = 64 /\ HexDecodeString(address).err = "ok"

\* validPattern of NEARAddress.ValidateNamed,
\* ^[a-z0-9]([a-z0-9_-]*[a-z0-9])?(\.[a-z0-9]([a-z0-9_-]*[a-z0-9])?)*$ :
\* labels separated by '.', each beginning and ending with a lower-case
\* letter or a digit, with '_' and '-' allowed in between.
NEARValidPattern(address) ==
    \A label \in {Split(address, 46)[n] : n \in DOMAIN Split(address, 46)} :
        /\ label # <<>>
        /\ IsLowerOrDigit(label[1])
        /\ IsLowerOrDigit(label[Len(label)])
        /\ \A i \in DOMAIN label : IsLowerOrDigit(label[i]) \/ label[i] \in {95, 45}

\* NEARAddress.ValidateNamed
NEARValidateNamed(address) ==
    IF Len(address) < 2 \/ Len(address) > 64 THEN FALSE ELSE NEARValidPattern(address)

\* NEARAddress.Validate
NEARValidate(address) == IF NEARValidateImplicit(address) THEN TRUE ELSE NEARValidateNamed(address)

\* ".12345abcdefghijklmnopqrstuvwxyz"
eosNameCharset == {46} \cup (49..53) \cup (97..122)

\* EOSAddress.ValidateAccountName
EOSValidateAccountName(name) ==
    IF Len(name) = 0 \/ Len(name) > 12 THEN FALSE
    ELSE IF \E i \in DOMAIN name : name[i] \notin eosNameCharset THEN FALSE
    ELSE IF name[1] >= 49 /\ name[1] <= 53 THEN FALSE
    ELSE TRUE

\* The prefixes "EOS" and "PUB_K1_", and the tag "K1" of the checksum.
EOSPrefix == <<69, 79, 83>>

PubK1Prefix == <<80, 85, 66, 95, 75, 49, 95>>

K1 == <<75, 49>>

\* EOSAddress.Generate
EOSGenerate(publicKey) ==
    IF Len(publicKey) # 33 THEN [err |-> "ErrPublicKeyLength", address |-> <<>>]
    ELSE [err |-> "ok",
          address |-> EOSPrefix \o Base58Encode(publicKey \o SubSeq(RIPEMD160(publicKey), 1, ChecksumLen))]

\* A decoded key: 33 bytes of public key, then the checksum over tag and key.
EOSKeyAgrees(decoded, tag) ==
    IF Len(decoded) # 33 + ChecksumLen THEN FALSE
    ELSE SubSeq(decoded, 34, 33 + ChecksumLen) = SubSeq(RIPEMD160(tag \o SubSeq(decoded, 1, 33)), 1, ChecksumLen)

\* EOSAddress.validatePublicKey
EOSvalidatePublicKey(address) ==
    IF ~HasPrefix(address, EOSPrefix) THEN FALSE
    ELSE LET encoded == SubSeq(address, 4, Len(address))
         IN  IF Len(encoded) = 0 THEN FALSE
             ELSE IF Base58Decode(encoded).err # "ok" THEN FALSE
             ELSE EOSKeyAgrees(Base58Decode(encoded).bytes, <<>>)

\* EOSAddress.validatePubK1Key
EOSvalidatePubK1Key(address) ==
    IF ~HasPrefix(address, PubK1Prefix) THEN FALSE
    ELSE LET encoded == SubSeq(address, 8, Len(address))
         IN  IF Len(encoded) = 0 THEN FALSE
             ELSE IF Base58Decode(encoded).err # "ok" THEN FALSE
             ELSE EOSKeyAgrees(Base58Decode(encoded).bytes, K1)

\* EOSAddress.Validate
EOSValidate(address) ==
    IF HasPrefix(address, EOSPrefix) THEN EOSvalidatePublicKey(address)
    ELSE IF HasPrefix(address, PubK1Prefix) THEN EOSvalidatePubK1Key(address)
    ELSE EOSValidateAccountName(address)

\* SolanaAddress.Generate
SolanaGenerate(publicKey) ==
    IF Len(publicKey) # 32 THEN [err |-> "ErrPublicKeyLength", address |-> <<>>]
    ELSE [err |-> "ok", address |-> Base58Encode(publicKey)]

\* SolanaAddress.Validate
SolanaValidate(address) ==
    IF Base58Decode(address).err # "ok" THEN FALSE ELSE Len(Base58Decode(address).bytes) = 32

\* SuiAddress.Validate
SuiValidate(address) ==
    IF ~HasPrefix(address, <<48, 120>>) THEN FALSE
    ELSE IF Len(address) - 2 # 64 THEN FALSE
    ELSE HexDecodeString(SubSeq(address, 3, Len(address))).err = "ok"

\* AptosAddress.Validate: a hexadecimal part shorter than 64 passes on to the decoder.
AptosValidate(address) ==
    IF ~HasPrefix(address, <<48, 120>>) THEN FALSE
    ELSE IF Len(address) - 2 > 64 THEN FALSE
    ELSE HexDecodeString(SubSeq(address, 3, Len(address))).err = "ok"

\* FlowAddress.Validate
FlowValidate(address) ==
    LET cleaned == TrimPrefix(TrimPrefix(address, <<48, 120>>), <<48, 88>>)
    IN  IF Len(cleaned) # 16 THEN FALSE
        ELSE IF HexDecodeString(cleaned).err # "ok" THEN FALSE
        ELSE IF \A i \in DOMAIN cleaned : cleaned[i] = 48 THEN FALSE
        ELSE TRUE

\* HederaAddress.Validate: ^(\d+)\.(\d+)\.(\d+)$, or ^(\d+)\.(\d+)\.([0-9a-fA-F]+)$
\* with 64 or 66 hexadecimal digits.
HederaValidate(address) ==
    LET parts == Split(address, 46)
        digits(c) == c # <<>> /\ \A i \in DOMAIN c : IsDigit(c[i])
        hexDigits(c) == c # <<>> /\ \A i \in DOMAIN c : IsHexDigit(c[i])
    IN  IF Len(parts) # 3 \/ ~digits(parts[1]) \/ ~digits(parts[2]) THEN FALSE
        ELSE IF digits(parts[3]) THEN TRUE
        ELSE hexDigits(parts[3]) /\ Len(parts[3]) \in {64, 66}

\* The codecs by the name of their chain.
Codecs == {"near", "eos", "sol", "sui", "apt", "flow", "hbar"}

Validate(chain, address) ==
    CASE chain = "near" -> NEARValidate(address)
      [] chain = "eos" -> EOSValidate(address)
      [] chain = "sol" -> SolanaValidate(address)
      [] chain = "sui" -> SuiValidate(address)
      [] chain = "apt" -> AptosValidate(address)
      [] chain = "flow" -> FlowValidate(address)
      [] chain = "hbar" -> HederaValidate(address)

(***************************************************************************)
(* Bech32 and SegWit addresses (package address), at their real size: the  *)
(* checksum is the 30-bit polymod, a witness program has 20 or 32 bytes.   *)
(***************************************************************************)
\* "qpzry9x8gf2tvdw0s3jn54khce6mua7l"
bech32Charset ==
    <<113, 112, 122, 114, 121, 57, 120, 56, 103, 102, 50, 116, 118, 100, 119, 48,
      115, 51, 106, 110, 53, 52, 107, 104, 99, 101, 54, 109, 117, 97, 55, 108>>

bech32CharsetMap(c) ==
    IF \E i \in DOMAIN bech32Charset : bech32Charset[i] = c
    THEN (CHOOSE i \in DOMAIN bech32Charset : bech32Charset[i] = c) - 1
    ELSE Nil

\* The sequence s with its elements computed.
Elements(s) == SubSeq(s, 1, Len(s))

Bech32Standard == 0

Bech32m == 1

\* a ^ b on non-negative integers
RECURSIVE BitXorWidth(_, _, _)
BitXorWidth(a, b, w) ==
    IF w = 1 THEN (a + b) % 2
    ELSE BitXorWidth(a \div (2 ^ (w \div 2)), b \div (2 ^ (w \div 2)), w - w \div 2) * (2 ^ (w \div 2))
         + BitXorWidth(a % (2 ^ (w \div 2)), b % (2 ^ (w \div 2)), w \div 2)

BitXor(a, b) == BitXorWidth(a, b, 32)

\* generator of bech32Polymod: 0x3b6a57b2, 0x26508e6d, 0x1ea119fa, 0x3d4233dd, 0x2a1462b3
bech32Generator == <<996825010, 642813549, 513874426, 1027748829, 705979059>>

\* One round of the loop of bech32Polymod.
bech32PolymodRound(chk, v) ==
    LET gen(x, i) == IF ((chk \div (2 ^ 25)) \div (2 ^ i)) % 2 = 1
                     THEN BitXor(x, bech32Generator[i + 1]) ELSE x
    IN  gen(gen(gen(gen(gen(BitXor((chk % (2 ^ 25)) * 32, v), 0), 1), 2), 3), 4)

\* The loop of bech32Polymod over values[from..to], entered with chk.
RECURSIVE bech32PolymodRange(_, _, _, _)
bech32PolymodRange(values, from, to, chk) ==
    IF from > to THEN chk
    ELSE IF from = to THEN bech32PolymodRound(chk, values[from])
    ELSE LET rest(c) == IF c >= 0 THEN bech32PolymodRange(values, (from + to) \div 2 + 1, to, c) ELSE c
         IN  rest(bech32PolymodRange(values, from, (from + to) \div 2, chk))

bech32Polymod(values) == bech32PolymodRange(values, 1, Len(values), 1)

bech32HRPExpand(hrp) ==
    Elements([i \in 1..(2 * Len(hrp) + 1) |->
                 IF i <= Len(hrp) THEN hrp[i] \div 32
                 ELSE IF i = Len(hrp) + 1 THEN 0
                 ELSE hrp[i - Len(hrp) - 1] % 32])

\* expectedConst: 1, or 0x2bc830a3 for Bech32m
bech32Const(encoding) == IF encoding = Bech32m THEN 734539939 ELSE 1

bech32VerifyChecksum(hrp, data, encoding) ==
    bech32Polymod(bech32HRPExpand(hrp) \o data) = bech32Const(encoding)

bech32CreateChecksum(hrp, data, encoding) ==
    LET symbols(polymod) == Elements([i \in 1..6 |-> (polymod \div (2 ^ (5 * (6 - i)))) % 32])
    IN  symbols(BitXor(bech32Polymod(bech32HRPExpand(hrp) \o data \o <<0, 0, 0, 0, 0, 0>>),
                       bech32Const(encoding)))

\* convertBits regroups the bits of data, fromBits of each value with the
\* high bit first, into values of toBits bits: the loop gives out a value
\* each time toBits bits have come in.  StreamBit is bit j of what came in,
\* 0 past the end; Group is the k-th value of toBits bits.
StreamBit(data, fromBits, j) ==
    IF j >= Len(data) * fromBits THEN 0
    ELSE (data[j \div fromBits + 1] \div (2 ^ (fromBits - 1 - (j % fromBits)))) % 2

RECURSIVE Group(_, _, _, _, _)
Group(data, fromBits, toBits, k, t) ==
    IF t = toBits THEN 0
    ELSE StreamBit(data, fromBits, (k - 1) * toBits + t) * (2 ^ (toBits - 1 - t))
             + Group(data, fromBits, toBits, k, t + 1)

\* After the loop bits = (Len(data) * fromBits) % toBits bits are left in acc;
\* (acc << (toBits - bits)) & maxv is the group they begin.
convertBits(data, fromBits, toBits, pad) ==
    LET n == (Len(data) * fromBits) \div toBits
        bits == (Len(data) * fromBits) % toBits
    IN  IF \E i \in DOMAIN data : data[i] < 0 \/ data[i] \div (2 ^ fromBits) # 0
        THEN [err |-> "ErrInvalidValue", out |-> <<>>]
        ELSE IF pad
        THEN [err |-> "ok",
              out |-> Elements([k \in 1..(IF bits > 0 THEN n + 1 ELSE n) |->
                                   Group(data, fromBits, toBits, k, 0)])]
        ELSE IF bits >= fromBits \/ Group(data, fromBits, toBits, n + 1, 0) # 0
        THEN [err |-> "ErrInvalidPadding", out |-> <<>>]
        ELSE [err |-> "ok", out |-> Elements([k \in 1..n |-> Group(data, fromBits, toBits, k, 0)])]

\* strings.ToLower, strings.ToUpper
ToLower(str) ==
    Elements([i \in DOMAIN str |-> IF str[i] >= 65 /\ str[i] <= 90 THEN str[i] + 32 ELSE str[i]])

ToUpper(str) ==
    Elements([i \in DOMAIN str |-> IF str[i] >= 97 /\ str[i] <= 122 THEN str[i] - 32 ELSE str[i]])

\* strings.LastIndex(str, "1"), counted from 0; -1 when there is none
LastIndexOfOne(str) ==
    IF \E i \in DOMAIN str : str[i] = 49
    THEN (CHOOSE i \in DOMAIN str : str[i] = 49 /\ \A j \in (i + 1)..Len(str) : str[j] # 49) - 1
    ELSE -1

Bech32Failed(err) == [err |-> err, hrp |-> <<>>, data |-> <<>>, encoding |-> Bech32Standard]

\* Bech32Decode after the case check, on the lower-case string.
Bech32DecodeLower(str, pos) ==
    LET hrp == SubSeq(str, 1, pos)
        intData == Elements([i \in 1..(Len(str) - pos - 1) |-> bech32CharsetMap(str[pos + 1 + i])])
        back(encoding, converted) ==
            IF converted.err # "ok" THEN Bech32Failed(converted.err)
            ELSE [err |-> "ok", hrp |-> hrp, data |-> converted.out, encoding |-> encoding]
        checked(standard, modified) ==
            IF ~standard /\ ~modified THEN Bech32Failed("ErrInvalidChecksum")
            ELSE back(IF standard THEN Bech32Standard ELSE Bech32m,
                      convertBits(SubSeq(intData, 1, Len(intData) - 6), 5, 8, FALSE))
    IN  IF pos < 1 \/ pos + 7 > Len(str) THEN Bech32Failed("ErrSeparator")
        ELSE IF \E i \in DOMAIN intData : intData[i] = Nil THEN Bech32Failed("ErrCharacter")
        ELSE checked(bech32VerifyChecksum(hrp, intData, Bech32Standard),
                     bech32VerifyChecksum(hrp, intData, Bech32m))

Bech32Decode(str) ==
    IF str # ToLower(str) /\ str # ToUpper(str) THEN Bech32Failed("ErrMixedCase")
    ELSE Bech32DecodeLower(ToLower(str), LastIndexOfOne(ToLower(str)))

\* The string SegWitEncode and Bech32Encode build: hrp, '1', data, checksum.
Bech32String(hrp, data, checksum) ==
    Elements(ToLower(hrp) \o <<49>> \o [i \in DOMAIN data |-> bech32Charset[data[i] + 1]]
                 \o [i \in DOMAIN checksum |-> bech32Charset[checksum[i] + 1]])

SegWitEncode(hrp, witnessVersion, witnessProgram) ==
    LET built(data) ==
            Bech32String(hrp, data,
                         bech32CreateChecksum(hrp, data,
                                              IF witnessVersion > 0 THEN Bech32m ELSE Bech32Standard))
        from(converted) ==
            IF converted.err # "ok" THEN [err |-> converted.err, address |-> <<>>]
            ELSE [err |-> "ok", address |-> built(<<witnessVersion>> \o converted.out)]
    IN  IF witnessVersion < 0 \/ witnessVersion > 16
        THEN [err |-> "ErrWitnessVersion", address |-> <<>>]
        ELSE from(convertBits(witnessProgram, 8, 5, TRUE))

SegWitFailed(err) == [err |-> err, hrp |-> <<>>, witnessVersion |-> 0, witnessProgram |-> <<>>]

SegWitDecode(str) ==
    LET dataStr == SubSeq(ToLower(str), LastIndexOfOne(ToLower(str)) + 2, Len(str))
        witnessVersion == bech32CharsetMap(dataStr[1])
        intData == Elements([i \in DOMAIN dataStr |-> bech32CharsetMap(dataStr[i])])
        program(hrp, converted) ==
            IF converted.err # "ok" THEN SegWitFailed(converted.err)
            ELSE [err |-> "ok", hrp |-> hrp, witnessVersion |-> witnessVersion,
                  witnessProgram |-> converted.out]
        from(decoded) ==
            IF decoded.err # "ok" THEN SegWitFailed(decoded.err)
            ELSE IF Len(decoded.data) < 1 THEN SegWitFailed("ErrEmptyData")
            ELSE IF witnessVersion = 0 /\ decoded.encoding # Bech32Standard
            THEN SegWitFailed("ErrEncoding")
            ELSE IF witnessVersion > 0 /\ decoded.encoding # Bech32m THEN SegWitFailed("ErrEncoding")
            ELSE program(decoded.hrp, convertBits(SubSeq(intData, 2, Len(intData) - 6), 5, 8, FALSE))
    IN  from(Bech32Decode(str))

(***************************************************************************)
(* The Bitcoin codec (package address).  The hashes of the package that    *)
(* make a witness program have their real length, 20 and 32 bytes.         *)
(***************************************************************************)
\* address.Hash160
Hash160Address(data) == Digest(8, data, 20)

\* address.SHA256Hash
SHA256Hash(data) == Digest(9, data, 32)

\* address.Base58CheckEncode: version byte, payload, Checksum4
Base58CheckEncodeVersion(version, payload) ==
    Base58Encode(<<version>> \o payload \o Checksum(<<version>> \o payload))

\* address.Base58CheckDecode
Base58CheckDecodeVersion(str) ==
    LET from(d) ==
            IF d.err # "ok" THEN [err |-> d.err, version |-> 0, payload |-> <<>>]
            ELSE IF Len(d.bytes) < 5 THEN [err |-> "ErrInvalidAddress", version |-> 0, payload |-> <<>>]
            ELSE IF SubSeq(d.bytes, Len(d.bytes) - 3, Len(d.bytes))
                        # Checksum(SubSeq(d.bytes, 1, Len(d.bytes) - 4))
            THEN [err |-> "ErrInvalidChecksum", version |-> 0, payload |-> <<>>]
            ELSE [err |-> "ok", version |-> d.bytes[1], payload |-> SubSeq(d.bytes, 2, Len(d.bytes) - 4)]
    IN  from(Base58Decode(str))

BitcoinP2PKHVersion == 0

BitcoinP2SHVersion == 5

BitcoinTestnetP2PKHVersion == 111

BitcoinTestnetP2SHVersion == 196

\* "bc" and "tb"
BitcoinBech32HRP == <<98, 99>>

BitcoinTestnetBech32HRP == <<116, 98>>

\* BitcoinAddress.P2PKH
BitcoinP2PKH(testnet, publicKey) ==
    IF Len(publicKey) # 33 /\ Len(publicKey) # 65 THEN [err |-> "ErrInvalidPublicKey", address |-> <<>>]
    ELSE [err |-> "ok",
          address |-> Base58CheckEncodeVersion(
                          IF testnet THEN BitcoinTestnetP2PKHVersion ELSE BitcoinP2PKHVersion,
                          Hash160Address(publicKey))]

\* BitcoinAddress.P2SH
BitcoinP2SH(testnet, redeemScript) ==
    IF Len(redeemScript) = 0 THEN [err |-> "ErrEmptyScript", address |-> <<>>]
    ELSE [err |-> "ok",
          address |-> Base58CheckEncodeVersion(
                          IF testnet THEN BitcoinTestnetP2SHVersion ELSE BitcoinP2SHVersion,
                          Hash160Address(redeemScript))]

\* BitcoinAddress.P2WPKH
BitcoinP2WPKH(testnet, publicKey) ==
    IF Len(publicKey) # 33 THEN [err |-> "ErrInvalidPublicKey", address |-> <<>>]
    ELSE SegWitEncode(IF testnet THEN BitcoinTestnetBech32HRP ELSE BitcoinBech32HRP, 0,
                      Hash160Address(publicKey))

\* BitcoinAddress.P2WSH
BitcoinP2WSH(testnet, witnessScript) ==
    IF Len(witnessScript) = 0 THEN [err |-> "ErrEmptyScript", address |-> <<>>]
    ELSE SegWitEncode(IF testnet THEN BitcoinTestnetBech32HRP ELSE BitcoinBech32HRP, 0,
                      SHA256Hash(witnessScript))

\* BitcoinAddress.P2TR
BitcoinP2TR(testnet, taprootKey) ==
    IF Len(taprootKey) # 32 THEN [err |-> "ErrInvalidPublicKey", address |-> <<>>]
    ELSE SegWitEncode(IF testnet THEN BitcoinTestnetBech32HRP ELSE BitcoinBech32HRP, 1, taprootKey)

\* BitcoinAddress.Generate
BitcoinGenerate(testnet, publicKey) == BitcoinP2PKH(testnet, publicKey)

\* The test of BitcoinAddress.Validate and DecodeAddress for a Bech32 address:
\* more than four characters, the first three "bc1" or "tb1".
BitcoinIsBech32(address) ==
    /\ Len(address) > 4
    /\ SubSeq(address, 1, 3) \in {BitcoinBech32HRP \o <<49>>, BitcoinTestnetBech32HRP \o <<49>>}

\* BitcoinAddress.Validate
BitcoinValidate(testnet, address) ==
    LET byVersion(d) ==
            IF d.err # "ok" THEN FALSE
            ELSE IF d.version \in {BitcoinP2PKHVersion, BitcoinP2SHVersion} THEN ~testnet
            ELSE IF d.version \in {BitcoinTestnetP2PKHVersion, BitcoinTestnetP2SHVersion} THEN testnet
            ELSE FALSE
    IN  IF BitcoinIsBech32(address) THEN SegWitDecode(address).err = "ok"
        ELSE byVersion(Base58CheckDecodeVersion(address))

\* BitcoinAddress.DecodeAddress: the error, and the PublicKey of the info.
BitcoinDecodeAddress(testnet, address) ==
    LET segwit(d) ==
            IF d.err # "ok" THEN [err |-> d.err, info |-> <<>>]
            ELSE IF (d.hrp = BitcoinBech32HRP /\ testnet) \/ (d.hrp = BitcoinTestnetBech32HRP /\ ~testnet)
            THEN [err |-> "ErrNetworkMismatch", info |-> <<>>]
            ELSE [err |-> "ok", info |-> d.witnessProgram]
        base58(d) ==
            IF d.err # "ok" THEN [err |-> d.err, info |-> <<>>]
            ELSE IF d.version \in {BitcoinP2PKHVersion, BitcoinTestnetP2PKHVersion,
                                   BitcoinP2SHVersion, BitcoinTestnetP2SHVersion}
            THEN [err |-> "ok", info |-> d.payload]
            ELSE [err |-> "ErrInvalidVersion", info |-> <<>>]
    IN  IF BitcoinIsBech32(address) THEN segwit(SegWitDecode(address))
        ELSE base58(Base58CheckDecodeVersion(address))

(***************************************************************************)
(* The TRON codec (package address): a prefix byte, the last 20 bytes of   *)
(* the Keccak-256 hash of the key and four checksum bytes, in Base58.      *)
(***************************************************************************)
TronAddressPrefix == 65

TronTestnetPrefix == 160

\* address.Keccak256
Keccak256(data) == Digest(10, data, 32)

\* TronAddress.Generate
TronGenerate(testnet, publicKey) ==
    LET build(initialAddress) == Base58Encode(initialAddress \o Checksum(initialAddress))
        from(key) ==
            [err |-> "ok",
             address |-> build(<<IF testnet THEN TronTestnetPrefix ELSE TronAddressPrefix>>
                                   \o SubSeq(Keccak256(key), 13, 32))]
    IN  IF Len(publicKey) = 64 THEN from(publicKey)
        ELSE IF Len(publicKey) = 65
        THEN IF publicKey[1] # 4 THEN [err |-> "ErrPrefix", address |-> <<>>] ELSE from(Tail(publicKey))
        ELSE [err |-> "ErrInvalidPublicKey", address |-> <<>>]

\* The test both TronAddress.Validate and DecodeAddress make for a hex address: "41" or "a0" first
TronIsHex(address) == HasPrefix(address, <<52, 49>>) \/ HasPrefix(address, <<97, 48>>)

\* TronAddress.Validate
TronValidate(testnet, address) ==
    LET checked(decoded) ==
            IF decoded.err # "ok" THEN FALSE
            ELSE IF Len(decoded.bytes) # 25 THEN FALSE
            ELSE IF decoded.bytes[1] # (IF testnet THEN TronTestnetPrefix ELSE TronAddressPrefix) THEN FALSE
            ELSE SubSeq(decoded.bytes, 22, 25) = Checksum(SubSeq(decoded.bytes, 1, 21))
    IN  IF TronIsHex(address)
        THEN IF Len(address) = 42 THEN HexDecodeString(address).err = "ok" ELSE FALSE
        ELSE IF ~HasPrefix(address, <<84>>) THEN FALSE
        ELSE checked(Decode(address))

\* TronAddress.DecodeAddress: the error and the AddressInfo, <<>> for nil
TronDecodeAddress(testnet, address) ==
    LET hex(decoded) ==
            IF decoded.err # "ok" THEN [err |-> decoded.err, info |-> <<>>]
            ELSE [err |-> "ok", info |-> [Address |-> address, PublicKey |-> Tail(decoded.bytes),
                                          Version |-> decoded.bytes[1]]]
        base58(decoded) ==
            IF decoded.err # "ok" THEN [err |-> decoded.err, info |-> <<>>]
            ELSE IF Len(decoded.bytes) # 25 THEN [err |-> "ErrInvalidAddress", info |-> <<>>]
            ELSE [err |-> "ok", info |-> [Address |-> address, PublicKey |-> SubSeq(decoded.bytes, 2, 21),
                                          Version |-> decoded.bytes[1]]]
    IN  IF TronIsHex(address) THEN hex(HexDecodeString(address)) ELSE base58(Decode(address))

(***************************************************************************)
(* An address codec instance: the codec of a chain for one network.  The   *)
(* calls go through the AddressGenerator interface to the codec's methods. *)
(***************************************************************************)
CodecGenerate(codec, publicKey) ==
    CASE codec.chain = "trx" -> TronGenerate(codec.testnet, publicKey)
      [] codec.chain = "btc" -> BitcoinGenerate(codec.testnet, publicKey)
      [] codec.chain = "near" -> NEARGenerate(publicKey)
      [] codec.chain = "sol" -> SolanaGenerate(publicKey)
      [] codec.chain = "eos" -> EOSGenerate(publicKey)

CodecValidate(codec, address) ==
    CASE codec.chain = "trx" -> TronValidate(codec.testnet, address)
      [] codec.chain = "btc" -> BitcoinValidate(codec.testnet, address)
      [] OTHER -> Validate(codec.chain, address)

CodecDecodeAddress(codec, address) ==
    CASE codec.chain = "trx" -> TronDecodeAddress(codec.testnet, address)
      [] codec.chain = "btc" -> BitcoinDecodeAddress(codec.testnet, address)

(***************************************************************************)
(* The Factory over its codecs.  A generator in the map is named by its    *)
(* constructor; gen is the generator a call went to, "nil" when it went to *)
(* none.                                                                   *)
(***************************************************************************)
\* AddressGenerator.Generate of the generator a constructor makes
GeneratorGenerate(gen, publicKey) ==
    CASE gen = "NewNEARAddress" -> NEARGenerate(publicKey)
      [] gen = "NewEOSAddress" -> EOSGenerate(publicKey)
      [] gen = "NewSolanaAddress" -> SolanaGenerate(publicKey)

\* AddressGenerator.Validate of the generator a constructor makes
GeneratorValidate(gen, address) ==
    CASE gen = "NewNEARAddress" -> NEARValidate(address)
      [] gen = "NewEOSAddress" -> EOSValidate(address)
      [] gen = "NewSolanaAddress" -> SolanaValidate(address)

\* Factory.Generate
FactoryGenerate(gens, chainID, publicKey) ==
    LET from(got) ==
            IF got.err # "ok" THEN [err |-> got.err, address |-> <<>>, gen |-> "nil"]
            ELSE [err |-> GeneratorGenerate(got.gen, publicKey).err,
                  address |-> GeneratorGenerate(got.gen, publicKey).address, gen |-> got.gen]
    IN  from(Get(gens, chainID))

\* Factory.Validate
FactoryValidate(gens, chainID, address) ==
    LET from(got) ==
            IF got.err # "ok" THEN [valid |-> FALSE, gen |-> "nil"]
            ELSE [valid |-> GeneratorValidate(got.gen, address), gen |-> got.gen]
    IN  from(Get(gens, chainID))

(***************************************************************************)
(* The caller of the extended-key API.  It obtains a first key from a seed *)
(* or from a string and derives further keys from the newest one.  keys is *)
(* the heap of ExtendedKey objects created so far, made[h] how keys[h]     *)
(* came to be, last the call made last with its outcome, writes the number *)
(* of bytes the caller stored into slices that accessors returned.         *)
(***************************************************************************)
MaxKeys == 3
MaxWrites == 1

SeedInputs ==
    {[i \in 1..16 |-> i - 1], [i \in 1..32 |-> (i * 7) % 256], [i \in 1..15 |-> 1],
     [i \in 1..65 |-> 0], [i \in 1..64 |-> (i * 5) % 256], <<>>}

IndexInputs == {0, 1, HardenedKeyStart - 1, HardenedKeyStart, HardenedKeyStart + 1}

WriteValues == {0, 255}

\* A serialized key as a caller may assemble it.
Payload(version, depth, key) ==
    PutUint(version, 4) \o <<depth>> \o <<171, 205>> \o PutUint(1, IndexLen) \o <<17, 34>> \o key

CraftedPayloads ==
    {Payload(Network("MainNet").PrivateKeyID, 255, <<0, 5>>),
     Payload(Network("TestNet").PublicKeyID, 255, CompressPoint(ScalarMult(Generator, 7))),
     Payload(Network("MainNet").PrivateKeyID, 0, <<0, 0>>),
     Payload(Network("MainNet").PrivateKeyID, 1, <<1, 5>>),
     Payload(Network("MainNet").PublicKeyID, 1, <<2, 0>>),
     Payload(Network("MainNet").PublicKeyID, 1, <<2, 214>>),
     Payload(305419896, 1, <<0, 5>>)}

MalformedStrings ==
    {<<>>, <<49>>, <<48, 49>>,
     Base58CheckEncode(<<1, 2, 3>>),
     Base58Encode(Payload(Network("MainNet").PrivateKeyID, 0, <<0, 5>>) \o <<1, 2, 3, 4>>)}

StringInputs == {Base58CheckEncode(p) : p \in CraftedPayloads} \cup MalformedStrings

\* The last call: its operation, the handle of its receiver, its integer
\* argument (a child index; the length of the seed of NewMasterKey), the
\* error it returned and the handle of the key it returned.
Call(op, h, index, err, res) == [op |-> op, h |-> h, index |-> index, err |-> err, res |-> res]

Init ==
    /\ keys = <<>>
    /\ made = <<>>
    /\ last = Call("none", 0, 0, "ok", 0)
    /\ writes = 0
    /\ procs = [p \in Procs |-> Idle]
    /\ coinRegistry = InitialCoinRegistry
    /\ generators = registerDefaults
    /\ mn = NoMnemonic
    /\ path = Held(NoPath, 0)
    /\ wallet = NoWallet

\* A call that returned r (an [err, key] record): on success the heap holds a new key.
Created(op, h, index, r, how) ==
    /\ keys' = IF r.err = "ok" THEN Append(keys, r.key) ELSE keys
    /\ made' = IF r.err = "ok" THEN Append(made, how) ELSE made
    /\ last' = Call(op, h, index, r.err, IF r.err = "ok" THEN Len(keys) + 1 ELSE 0)
    /\ UNCHANGED <<writes, procs, coinRegistry, generators, mn, path, wallet>>

MasterFromSeed ==
    \E seed \in SeedInputs, network \in NetworkRefs :
        /\ keys = <<>>
        /\ Created("NewMasterKey", 0, Len(seed), NewMasterKeyWithNetwork(seed, network), "master")

ParseInput ==
    \E encoded \in StringInputs :
        /\ keys = <<>>
        /\ Created("ParseExtendedKey", 0, 0, ParseExtendedKey(encoded), "parse")

DeriveChild ==
    \E index \in IndexInputs :
        /\ keys # <<>> /\ Len(keys) < MaxKeys
        /\ Created("Child", Len(keys), index, Child(keys[Len(keys)], index), "child")

NeuterKey ==
    /\ keys # <<>> /\ Len(keys) < MaxKeys
    /\ Created("Neuter", Len(keys), 0, [err |-> "ok", key |-> Neuter(keys[Len(keys)])], "neuter")

\* String on the newest key; when it returns, the string is parsed back.
StringAndParse ==
    /\ keys # <<>> /\ Len(keys) < MaxKeys
    /\ LET str == String(keys[Len(keys)])
       IN  IF str.err # "ok"
           THEN /\ last' = Call("String", Len(keys), 0, str.err, 0)
                /\ UNCHANGED <<keys, made, writes, procs, coinRegistry, generators, mn, path, wallet>>
           ELSE Created("ParseExtendedKey", Len(keys), 0, ParseExtendedKey(str.str), "parse")

Next ==
    \/ MasterFromSeed
    \/ ParseInput
    \/ DeriveChild
    \/ NeuterKey
    \/ StringAndParse

Spec == Init /\ [][Next]_vars

(***************************************************************************)
(* The caller that also writes into the slices the accessors hand out.     *)
(* ChainCode, ParentFingerprint, PrivateKeyBytes and, for a public key,    *)
(* PublicKeyBytes return the key's own backing array (PrivateKeyBytes      *)
(* from offset 1); PublicKeyBytes of a private key is computed afresh.     *)
(***************************************************************************)
Accessors == {"ChainCode", "ParentFingerprint", "PublicKeyBytes", "PrivateKeyBytes"}

\* The field of k and the offset in it that the slice returned by accessor f
\* aliases; field "none" for nil and for a fresh array.
Slice(k, f) ==
    CASE f = "ChainCode" -> [field |-> "chainCode", off |-> 0]
      [] f = "ParentFingerprint" -> [field |-> "parentFP", off |-> 0]
      [] f = "PublicKeyBytes" ->
             IF k.isPrivate THEN [field |-> "none", off |-> 0] ELSE [field |-> "key", off |-> 0]
      [] f = "PrivateKeyBytes" ->
             IF k.isPrivate THEN [field |-> "key", off |-> 1] ELSE [field |-> "none", off |-> 0]

\* k.f()[pos] = val
CallerWrite ==
    \E h \in DOMAIN keys, f \in Accessors, pos \in 0..(KeyLen - 1), val \in WriteValues :
        LET s == Slice(keys[h], f)
        IN  /\ writes < MaxWrites
            /\ s.field # "none" => s.off + pos < Len(keys[h][s.field])
            /\ s.field = "none" => keys[h].isPrivate /\ pos < CompressedPubKeyLen
            /\ keys' = IF s.field = "none" THEN keys
                       ELSE [keys EXCEPT ![h][s.field][s.off + pos + 1] = val]
            /\ made' = IF keys' = keys THEN made ELSE [made EXCEPT ![h] = "written"]
            /\ writes' = writes + 1
            /\ last' = Call(f, h, pos, "ok", 0)
            /\ UNCHANGED <<procs, coinRegistry, generators, mn, path, wallet>>

NextAlias == Next \/ CallerWrite

SpecAlias == Init /\ [][NextAlias]_vars

(***************************************************************************)
(* Concurrent callers of the registries.                                    *)
(***************************************************************************)
\* Goroutine p enters the map access of its call.
Begin(p, op, coin, chain) ==
    /\ procs[p].pc = "idle"
    /\ procs' = [q \in Procs |->
                    IF q = p
                    THEN [pc |-> "run", op |-> op, coin |-> coin, chain |-> chain,
                          raced |-> \E r \in Procs \ {p} :
                                        procs[r].pc = "run" /\ Conflict(op, procs[r].op)]
                    ELSE IF procs[q].pc = "run" /\ Conflict(op, procs[q].op)
                         THEN [procs[q] EXCEPT !.raced = TRUE]
                         ELSE procs[q]]
    /\ UNCHANGED <<keys, made, last, writes, coinRegistry, generators, mn, path, wallet>>

\* What the call returns when no other call is in its way.
Returned(c) ==
    CASE c.op = "GetCoinInfo" -> GetCoinInfo(coinRegistry, c.coin.Type)
      [] c.op = "ListCoins" -> IF c.coin \in ListCoins(coinRegistry) THEN "listed" ELSE "absent"
      [] c.op = "Get" -> Get(generators, c.chain).err
      [] OTHER -> "ok"

\* A map access that raced with a write has no defined result: the runtime may
\* stop the program (fatal error: concurrent map read and map write), and a
\* lookup may or may not see the entry.
Outcomes(c) ==
    IF ~c.raced THEN {Returned(c)}
    ELSE IF IsWrite(c.op) THEN {"ok", "fatal"}
    ELSE {Returned(c), "fatal", "nil", "ErrUnsupportedChain", "absent"}

\* Goroutine p leaves the map access; a write takes effect.
End(p) ==
    /\ procs[p].pc = "run"
    /\ \E outcome \in Outcomes(procs[p]) :
        /\ last' = Call(procs[p].op, p, procs[p].coin.Type, outcome, 0)
        /\ procs' = IF outcome = "fatal" THEN [q \in Procs |-> Crashed]
                    ELSE [procs EXCEPT ![p] = Idle]
        /\ coinRegistry' = IF procs[p].op = "RegisterCoin" /\ outcome # "fatal"
                           THEN RegisterCoin(coinRegistry, procs[p].coin) ELSE coinRegistry
        /\ generators' = IF procs[p].op = "Register" /\ outcome # "fatal"
                         THEN Register(generators, procs[p].chain, "NewTezosAddress")
                         ELSE generators
    /\ UNCHANGED <<keys, made, writes, mn, path, wallet>>

CallGetCoinInfo == \E p \in Procs, coin \in CoinInputs : Begin(p, "GetCoinInfo", coin, "")

CallListCoins == \E p \in Procs, coin \in CoinInputs : Begin(p, "ListCoins", coin, "")

CallRegisterCoin == \E p \in Procs, coin \in CoinInputs : Begin(p, "RegisterCoin", coin, "")

CallGet == \E p \in Procs, chain \in ChainInputs : Begin(p, "Get", Idle.coin, chain)

CallRegister == \E p \in Procs : Begin(p, "Register", Idle.coin, "xtz")

Return == \E p \in Procs : End(p)

NextConc ==
    \/ CallGetCoinInfo
    \/ CallListCoins
    \/ CallRegisterCoin
    \/ CallGet
    \/ CallRegister
    \/ Return

SpecConc == Init /\ [][NextConc]_vars

(***************************************************************************)
(* Stateless calls: a caller passing a string to the SS58 decoder, and a   *)
(* caller asking for the string form of a master key it built on a network *)
(* reference of its choice.                                                *)
(***************************************************************************)
MaxLen == 3

AddressChars == {48, 49, 50, 65, 122}

AddressInputs == UNION {[1..n -> AddressChars] : n \in 0..MaxLen}

CallDecodeAddress ==
    \E address \in AddressInputs :
        /\ last' = [op |-> "DecodeAddress", h |-> 0, index |-> 0,
                    err |-> DecodeAddress(address), res |-> 0, arg |-> address]
        /\ UNCHANGED <<keys, made, writes, procs, coinRegistry, generators, mn, path, wallet>>

CallString ==
    \E seed \in SeedInputs, network \in NetworkRefs :
        LET r == NewMasterKeyWithNetwork(seed, network)
        IN  /\ r.err = "ok"
            /\ last' = [op |-> "String", h |-> 0, index |-> 0,
                        err |-> String(r.key).err, res |-> 0, arg |-> seed]
            /\ UNCHANGED <<keys, made, writes, procs, coinRegistry, generators, mn, path, wallet>>

NextCalls == CallDecodeAddress \/ CallString

SpecCalls == Init /\ [][NextCalls]_vars

(***************************************************************************)
(* A caller of the mnemonic codec: it turns an entropy into a mnemonic and *)
(* the mnemonic back into an entropy.                                      *)
(***************************************************************************)
EntropyLengths == {15, 16, 17, 20, 24, 28, 32, 33}

\* Entropies of every length: byte i is a * i + b.
EntropyInputs ==
    {[i \in 1..n |-> (a * i + b) % 256] :
        n \in EntropyLengths, a \in {0, 1, 37, 255}, b \in {0, 1, 128, 255}}

CallNewMnemonic ==
    \E entropy \in EntropyInputs :
        /\ mn.phase = "none"
        /\ LET r == NewMnemonicWithWordList(entropy, DefaultWordList)
           IN  mn' = [NoMnemonic EXCEPT !.phase = "made", !.entropy = entropy,
                                        !.err = r.err, !.mnemonic = r.str]
        /\ UNCHANGED <<keys, made, last, writes, procs, coinRegistry, generators, path, wallet>>

CallMnemonicToEntropy ==
    /\ mn.phase = "made"
    /\ mn.err = "ok"
    /\ LET r == MnemonicToEntropyWithWordList(mn.mnemonic, DefaultWordList)
       IN  mn' = [mn EXCEPT !.phase = "decoded", !.derr = r.err, !.decoded = r.bytes]
    /\ UNCHANGED <<keys, made, last, writes, procs, coinRegistry, generators, path, wallet>>

NextMnemonic == CallNewMnemonic \/ CallMnemonicToEntropy

SpecMnemonic == Init /\ [][NextMnemonic]_vars

(***************************************************************************)
(* A caller of the mnemonic decoder alone: it passes a string of its own,  *)
(* a mnemonic of the encoder or an altered one.                            *)
(***************************************************************************)
\* The mnemonics the alterations start from, as word sequences.
BaseEntropies ==
    {[i \in 1..n |-> (a * i + b) % 256] : n \in {16, 20, 24, 28, 32}, a \in {0, 37}, b \in {0, 255}}

BaseWords == {Fields(NewMnemonicWithWordList(e, DefaultWordList).str) : e \in BaseEntropies}

UnknownWord == <<122, 122, 122, 122>>

\* The word of the list after w (w is in the list).
NextWord(w) == WordAt(DefaultWordList, (WordIndex(DefaultWordList, w) + 1) % WordListSize)

UpperCase(w) == [i \in DOMAIN w |-> w[i] - 32]

Front(ws) == SubSeq(ws, 1, Len(ws) - 1)

\* The alterations of a word sequence: none, a word less, a word more, an
\* unknown word (alone or with a word less), a word in upper case, another
\* last word, another first word.
Alterations(ws) ==
    { ws,
      Front(ws),
      ws \o <<WordAt(DefaultWordList, 0)>>,
      <<UnknownWord>> \o Tail(ws),
      <<UnknownWord>> \o Tail(Front(ws)),
      <<UpperCase(ws[1])>> \o Tail(ws),
      Front(ws) \o <<NextWord(ws[Len(ws)])>>,
      <<NextWord(ws[1])>> \o Tail(ws) }

\* Strings of the caller: the altered sequences joined by one space, or by a
\* tab and two spaces with white space around, and the empty string.
MnemonicInputs ==
    {Join(ws, <<32>>) : ws \in UNION {Alterations(b) : b \in BaseWords}}
        \cup {<<32>> \o Join(b, <<9, 32, 32>>) \o <<10>> : b \in BaseWords}
        \cup {<<>>}

CallMnemonicToEntropyInput ==
    \E str \in MnemonicInputs :
        /\ mn.phase = "none"
        /\ LET r == MnemonicToEntropyWithWordList(str, DefaultWordList)
           IN  mn' = [NoMnemonic EXCEPT !.phase = "checked", !.mnemonic = str,
                                        !.derr = r.err, !.decoded = r.bytes]
        /\ UNCHANGED <<keys, made, last, writes, procs, coinRegistry, generators, path, wallet>>

\* ValidateMnemonic on the string that was decoded: err == nil of the same call.
CallValidateMnemonic ==
    /\ mn.phase = "checked"
    /\ mn' = [mn EXCEPT !.phase = "validated",
                        !.err = IF MnemonicToEntropyWithWordList(mn.mnemonic, DefaultWordList).err = "ok"
                                THEN "true" ELSE "false"]
    /\ UNCHANGED <<keys, made, last, writes, procs, coinRegistry, generators, path, wallet>>

NextDecode == CallMnemonicToEntropyInput \/ CallValidateMnemonic

SpecDecode == Init /\ [][NextDecode]_vars

(***************************************************************************)
(* A caller of the path API: it parses BIP-32 path strings, and it obtains *)
(* a BIP-44 path from the constructor or the parser and applies builders.  *)
(***************************************************************************)
MaxSteps == 2

PathComponents ==
    { Decimal(0), Decimal(1) \o <<Apostrophe>>, Decimal(2) \o <<LowerH>>, Decimal(3) \o <<UpperH>>,
      Decimal(HardenedKeyStart - 1) \o <<Apostrophe>>, Decimal(HardenedKeyStart) \o <<Apostrophe>>,
      Decimal(HardenedKeyStart), Decimal(2 ^ IndexBits - 1), Decimal(2 ^ IndexBits),
      <<>>, <<120>>, <<49, 120>>, <<Apostrophe>>, <<45, 49>>, <<48, Apostrophe, Apostrophe>>,
      <<32, 48>> }

PathInputs ==
    {prefix \o Join(parts, <<Slash>>) :
        prefix \in {<<>>, <<LowerM, Slash>>, <<UpperM, Slash>>},
        parts \in UNION {[1..n -> PathComponents] : n \in 1..2}}
      \cup {<<>>, <<LowerM>>, <<UpperM>>, <<32, LowerM, Slash, 48, 32>>}

Bip44Inputs ==
    {<<LowerM, Slash>> \o Join(<<purpose, coin, account, change, index>>, <<Slash>>) :
        purpose \in {Decimal(44) \o <<Apostrophe>>, Decimal(44) \o <<LowerH>>, Decimal(44),
                     Decimal(49) \o <<Apostrophe>>, Decimal(84) \o <<LowerH>>,
                     Decimal(44) \o <<UpperH>>, <<120, Apostrophe>>},
        coin \in {Decimal(0) \o <<Apostrophe>>, Decimal(60) \o <<LowerH>>, Decimal(0)},
        account \in {Decimal(0) \o <<Apostrophe>>, Decimal(HardenedKeyStart) \o <<Apostrophe>>},
        change \in {Decimal(0), Decimal(1), Decimal(2), <<32, 49>>, Decimal(2 ^ IndexBits - 1),
                    Decimal(2 ^ IndexBits), Decimal(1) \o <<Apostrophe>>},
        index \in {Decimal(0), Decimal(HardenedKeyStart - 1), Decimal(HardenedKeyStart),
                   Decimal(0) \o <<Apostrophe>>}}
      \cup {Bip44String(DefaultPath(0)) \o <<Slash>> \o Decimal(0),
            SubSeq(Bip44String(DefaultPath(0)), 3, 13),
            PathString(<<Hardened(Purpose), Hardened(0), Hardened(0), 0>>),
            <<UpperM>> \o Tail(Bip44String(DefaultPath(0))), <<>>}

CoinTypeInputs == {0, 60}
AccountInputs == {0, 1, HardenedKeyStart}
ChangeInputs == {ExternalChain, InternalChain, 2}
AddressIndexInputs == {0, HardenedKeyStart - 1, HardenedKeyStart}

PathCall(op, arg, err, res) == [op |-> op, h |-> 0, index |-> 0, err |-> err, res |-> res, arg |-> arg]

CallParsePath ==
    \E str \in PathInputs :
        /\ last.op = "none"
        /\ LET r == ParsePath(str)
           IN  last' = PathCall("bip32.ParsePath", str, r.err, r.path)
        /\ UNCHANGED <<keys, made, writes, procs, coinRegistry, generators, mn, path, wallet>>

CallBip44ParsePath ==
    \E str \in Bip44Inputs :
        /\ last.op = "none"
        /\ LET r == Bip44ParsePath(str)
           IN  /\ last' = PathCall("bip44.ParsePath", str, r.err, r.path)
               /\ path' = Held(r.path, 0)
        /\ UNCHANGED <<keys, made, writes, procs, coinRegistry, generators, mn, wallet>>

CallNewPath ==
    \E coinType \in CoinTypeInputs, account \in AccountInputs, change \in ChangeInputs,
       addressIndex \in AddressIndexInputs :
        /\ last.op = "none"
        /\ last' = PathCall("NewPath", <<coinType, account, change, addressIndex>>, "ok",
                            NewPath(coinType, account, change, addressIndex))
        /\ path' = Held(NewPath(coinType, account, change, addressIndex), 0)
        /\ UNCHANGED <<keys, made, writes, procs, coinRegistry, generators, mn, wallet>>

\* A builder call on the path held: the caller holds the path it returns.
Built(op, arg, p) ==
    /\ path.value # NoPath
    /\ path.steps < MaxSteps
    /\ last' = PathCall(op, arg, "ok", p)
    /\ path' = Held(p, path.steps + 1)
    /\ UNCHANGED <<keys, made, writes, procs, coinRegistry, generators, mn, wallet>>

CallWithAccount == \E account \in AccountInputs : Built("WithAccount", account, WithAccount(path.value, account))

CallWithChange == \E change \in ChangeInputs : Built("WithChange", change, WithChange(path.value, change))

CallWithAddressIndex ==
    \E index \in AddressIndexInputs : Built("WithAddressIndex", index, WithAddressIndex(path.value, index))

CallNext == Built("Next", 0, NextPath(path.value))

NextPaths ==
    \/ CallParsePath
    \/ CallBip44ParsePath
    \/ CallNewPath
    \/ CallWithAccount
    \/ CallWithChange
    \/ CallWithAddressIndex
    \/ CallNext

SpecPaths == Init /\ [][NextPaths]_vars

(***************************************************************************)
(* A caller of the wallet API: it makes a wallet from a seed, derives an   *)
(* account, may replace it by the watch-only account of its public key,    *)
(* and derives addresses, one at a time or in bulk.                        *)
(***************************************************************************)
MaxCalls == 2

WalletSeeds == {seed \in SeedInputs : Len(seed) \in {15, 16, 32}}

AccountIndexInputs == {0, 1, HardenedKeyStart}

StartInputs == {0, 1, 2 ^ IndexBits - 1}

CountInputs == {0, 1, 2}

WalletCall(op, arg, err, res) == [op |-> op, h |-> 0, index |-> 0, err |-> err, res |-> res, arg |-> arg]

CallNewWalletFromSeed ==
    \E seed \in WalletSeeds :
        /\ last.op = "none"
        /\ \E r \in {NewWalletFromSeed(seed)} :
               /\ last' = WalletCall("NewWalletFromSeed", seed, r.err, 0)
               /\ wallet' = [wallet EXCEPT !.masterKey = r.masterKey]
        /\ UNCHANGED <<keys, made, writes, procs, coinRegistry, generators, mn, path>>

CallDeriveAccount ==
    \E coinType \in CoinTypeInputs, accountIndex \in AccountIndexInputs :
        /\ wallet.masterKey # NoKey
        /\ wallet.account = NoAccount
        /\ \E r \in {DeriveAccount(wallet.masterKey, coinType, accountIndex)} :
               /\ last' = WalletCall("DeriveAccount", <<coinType, accountIndex>>, r.err, 0)
               /\ wallet' = [wallet EXCEPT !.account = r.account]
        /\ UNCHANGED <<keys, made, writes, procs, coinRegistry, generators, mn, path>>

\* NewAccount on the key Account.PublicKey returns.
CallNewAccount ==
    /\ wallet.account # NoAccount
    /\ wallet.account.accountKey.isPrivate
    /\ wallet.log = <<>>
    /\ last' = WalletCall("NewAccount", 0, "ok", 0)
    /\ wallet' = [wallet EXCEPT !.account = NewAccount(wallet.account.coinType, wallet.account.index,
                                                        Neuter(wallet.account.accountKey))]
    /\ UNCHANGED <<keys, made, writes, procs, coinRegistry, generators, mn, path>>

CallDeriveAddress ==
    \E change \in {ExternalChain, InternalChain}, index \in StartInputs :
        /\ wallet.account # NoAccount
        /\ wallet.log = <<>>
        /\ \E r \in {DeriveAddress(wallet.account, change, index)} :
               last' = WalletCall("DeriveAddress", <<change, index>>, r.err, r.key)
        /\ UNCHANGED <<keys, made, writes, procs, coinRegistry, generators, mn, path, wallet>>

\* DeriveAddresses reads the account; the caller notes the call and the
\* account it was made on.
CallDeriveAddresses ==
    \E change \in {ExternalChain, InternalChain}, start \in StartInputs, count \in CountInputs :
        /\ wallet.account # NoAccount
        /\ Len(wallet.log) < MaxCalls
        /\ \E r \in {DeriveAddresses(wallet.account, change, start, count)} :
               /\ last' = WalletCall("DeriveAddresses", <<change, start, count>>, r.err, r.keys)
               /\ wallet' = [wallet EXCEPT !.log = Append(@, [account |-> wallet.account,
                                                               change |-> change, start |-> start,
                                                               count |-> count, err |-> r.err,
                                                               keys |-> r.keys])]
        /\ UNCHANGED <<keys, made, writes, procs, coinRegistry, generators, mn, path>>

NextWallet ==
    \/ CallNewWalletFromSeed
    \/ CallDeriveAccount
    \/ CallNewAccount
    \/ CallDeriveAddress
    \/ CallDeriveAddresses

SpecWallet == Init /\ [][NextWallet]_vars

(***************************************************************************)
(* A caller of Wallet.DeriveKey: it makes a wallet from a seed and derives *)
(* the key of a BIP-44 path value, whose fields are any indices.           *)
(***************************************************************************)
Bip44PathValues ==
    [Purpose : {Purpose, PurposeSegwit}, CoinType : CoinTypeInputs,
     Account : {0, 1, HardenedKeyStart - 1, HardenedKeyStart, HardenedKeyStart + 1},
     Change : {ExternalChain, InternalChain, HardenedKeyStart},
     AddressIndex : {0, HardenedKeyStart - 1, 2 ^ IndexBits - 1}]

CallDeriveKey ==
    \E p \in Bip44PathValues :
        /\ wallet.masterKey # NoKey
        /\ last.op = "NewWalletFromSeed"
        /\ \E r \in {DeriveKey(wallet.masterKey, p)} :
               last' = WalletCall("DeriveKey", p, r.err, r.key)
        /\ UNCHANGED <<keys, made, writes, procs, coinRegistry, generators, mn, path, wallet>>

NextDeriveKey == CallNewWalletFromSeed \/ CallDeriveKey

SpecDeriveKey == Init /\ [][NextDeriveKey]_vars

(***************************************************************************)
(* A caller of the SLIP-10 walker.                                         *)
(***************************************************************************)
Slip10Indices ==
    {0, 1, 44, HardenedKeyStart - 1, HardenedKeyStart, HardenedKeyStart + 1, HardenedKeyStart + 44,
     2 ^ IndexBits - 1}

Slip10Paths == UNION {[1..n -> Slip10Indices] : n \in 0..2}

CallDeriveKeyFromPath ==
    \E seed \in SeedInputs, p \in Slip10Paths :
        /\ last.op = "none"
        /\ LET r == DeriveKeyFromPath(seed, p)
           IN  last' = [op |-> "DeriveKeyFromPath", h |-> 0, index |-> 0, err |-> r.err,
                        res |-> <<r.key, r.publicKey>>, arg |-> <<seed, p>>]
        /\ UNCHANGED <<keys, made, writes, procs, coinRegistry, generators, mn, path, wallet>>

NextSlip10 == CallDeriveKeyFromPath

SpecSlip10 == Init /\ [][NextSlip10]_vars

(***************************************************************************)
(* A caller of the address codecs: it asks one codec whether one string is *)
(* an address.                                                             *)
(***************************************************************************)
\* "invalid"
Invalid == <<105, 110, 118, 97, 108, 105, 100>>

\* A public key of 32 bytes and one of 33 bytes.
PublicKey32 == [i \in 1..32 |-> (i * 7) % 256]

PublicKey33 == <<2>> \o PublicKey32

\* Addresses in the form each codec produces.
WellFormed ==
    {HexEncodeToString(PublicKey32),
     <<48, 120>> \o HexEncodeToString(PublicKey32),
     <<48, 120>>,
     HexEncodeToString(SubSeq(PublicKey32, 1, 8)),
     <<48, 46, 48, 46, 49, 50>>,
     Base58Encode(PublicKey32),
     EOSPrefix \o Base58Encode(PublicKey33 \o SubSeq(RIPEMD160(PublicKey33), 1, ChecksumLen)),
     PubK1Prefix \o Base58Encode(PublicKey33 \o SubSeq(RIPEMD160(K1 \o PublicKey33), 1, ChecksumLen)),
     EOSPrefix \o Base58Encode(PublicKey33 \o Zeros(ChecksumLen))}

ValidateInputs == AddressInputs \cup WellFormed \cup {Invalid}

CallValidate ==
    \E chain \in Codecs, address \in ValidateInputs :
        /\ last.op = "none"
        /\ last' = [op |-> "Validate", h |-> 0, index |-> 0, err |-> chain,
                    res |-> Validate(chain, address), arg |-> address]
        /\ UNCHANGED <<keys, made, writes, procs, coinRegistry, generators, mn, path, wallet>>

NextValidate == CallValidate

SpecValidate == Init /\ [][NextValidate]_vars

(***************************************************************************)
(* A caller of one Factory, made by NewFactory: it looks chains up, has    *)
(* addresses generated and validated, and registers generators late.       *)
(***************************************************************************)
\* The chain identifiers the package declares.
BuiltinChains ==
    {"btc", "eth", "ltc", "doge", "xrp", "xlm", "ada", "dot", "sol", "avax", "atom", "trx", "xtz",
     "xmr", "bch", "zec", "bsc", "matic", "ftm", "op", "arb", "vet", "theta", "bnb", "near", "algo",
     "eos", "flow", "apt", "sui", "sei", "stx", "fil", "ar", "kas", "hbar", "icp", "dash", "etc"}

\* The chains the caller has addresses made and checked for; "nochain" is no
\* chain of the package.
FactoryChains == {"near", "sol", "eos", "xtz", "nochain"}

LateGenerators == {"NewEOSAddress", "NewSolanaAddress"}

FactoryKeys == {PublicKey32, PublicKey33, <<>>}

FactoryAddresses ==
    {Invalid, HexEncodeToString(PublicKey32), Base58Encode(PublicKey32),
     EOSGenerate(PublicKey33).address, <<>>}

FactoryCall(op, arg, err, res, gen) ==
    [op |-> op, h |-> 0, index |-> 0, err |-> err, res |-> res, arg |-> arg, gen |-> gen,
     fresh |-> generators = registerDefaults]

CallFactoryGet ==
    \E chainID \in BuiltinChains \cup FactoryChains :
        /\ \E r \in {Get(generators, chainID)} :
               last' = FactoryCall("FactoryGet", <<chainID, <<>>>>, r.err, 0, r.gen)
        /\ UNCHANGED <<keys, made, writes, procs, coinRegistry, generators, mn, path, wallet>>

CallFactoryGenerate ==
    \E chainID \in FactoryChains, publicKey \in FactoryKeys :
        /\ \E r \in {FactoryGenerate(generators, chainID, publicKey)} :
               last' = FactoryCall("FactoryGenerate", <<chainID, publicKey>>, r.err, r.address, r.gen)
        /\ UNCHANGED <<keys, made, writes, procs, coinRegistry, generators, mn, path, wallet>>

CallFactoryValidate ==
    \E chainID \in FactoryChains, address \in FactoryAddresses :
        /\ \E r \in {FactoryValidate(generators, chainID, address)} :
               last' = FactoryCall("FactoryValidate", <<chainID, address>>, "ok", r.valid, r.gen)
        /\ UNCHANGED <<keys, made, writes, procs, coinRegistry, generators, mn, path, wallet>>

CallFactoryRegister ==
    \E chainID \in {"eos", "near"}, generator \in LateGenerators :
        /\ generators' = Register(generators, chainID, generator)
        /\ last' = FactoryCall("FactoryRegister", <<chainID, generator>>, "ok", 0, "nil")
        /\ UNCHANGED <<keys, made, writes, procs, coinRegistry, mn, path, wallet>>

NextFactory ==
    \/ CallFactoryGet
    \/ CallFactoryGenerate
    \/ CallFactoryValidate
    \/ CallFactoryRegister

SpecFactory == Init /\ [][NextFactory]_vars

(***************************************************************************)
(* A caller of the Base58 decoder.  A string is the sequence of its runes: *)
(* the decoder ranges over the runes of its input.                         *)
(***************************************************************************)
\* '1', 'A' and 'z' of the alphabet; '0' and 'l', which it leaves out; and
\* the runes U+0141 and U+00E9, which are not ASCII.
Base58Runes == {49, 65, 122, 48, 108, 321, 233}

Base58Inputs == UNION {[1..n -> Base58Runes] : n \in 0..MaxLen}

InAlphabet(c) == \E i \in DOMAIN base58Alphabet : base58Alphabet[i] = c

CallBase58Decode ==
    \E input \in Base58Inputs :
        /\ \E r \in {Base58Decode(input)} :
               last' = [op |-> "Base58Decode", h |-> 0, index |-> 0, err |-> r.err,
                        res |-> r.bytes, arg |-> input]
        /\ UNCHANGED <<keys, made, writes, procs, coinRegistry, generators, mn, path, wallet>>

NextBase58 == CallBase58Decode

SpecBase58 == Init /\ [][NextBase58]_vars

(***************************************************************************)
(* A caller of the Bitcoin codec: it has a codec of one network validate   *)
(* and decode an address that a codec of either network generated, such an *)
(* address with its last character changed, or a short string.             *)
(***************************************************************************)
Script == <<81, 135>>

\* The addresses the codec of a network generates, by the method making them.
BitcoinGenerated ==
    {[testnet |-> t, kind |-> "P2PKH", r |-> BitcoinP2PKH(t, PublicKey33)] : t \in BOOLEAN}
        \cup {[testnet |-> t, kind |-> "P2SH", r |-> BitcoinP2SH(t, Script)] : t \in BOOLEAN}
        \cup {[testnet |-> t, kind |-> "P2WPKH", r |-> BitcoinP2WPKH(t, PublicKey33)] : t \in BOOLEAN}
        \cup {[testnet |-> t, kind |-> "P2WSH", r |-> BitcoinP2WSH(t, Script)] : t \in BOOLEAN}
        \cup {[testnet |-> t, kind |-> "P2TR", r |-> BitcoinP2TR(t, PublicKey32)] : t \in BOOLEAN}

\* str with its last character replaced by 'q' or, if that is 'q', by 'p':
\* both are Base58 and Bech32 characters.
Altered(str) == [str EXCEPT ![Len(str)] = IF @ = 113 THEN 112 ELSE 113]

\* The addresses the caller passes: generated ones, as they are or altered,
\* and short strings.
BitcoinInputs ==
    [generated : BitcoinGenerated, kind : {"generated", "altered"}, short : {<<>>}]
        \cup [generated : {CHOOSE g \in BitcoinGenerated : ~g.testnet /\ g.kind = "P2PKH"},
              kind : {"short"}, short : AddressInputs]

InputAddress(input) ==
    CASE input.kind = "generated" -> input.generated.r.address
      [] input.kind = "altered" -> Altered(input.generated.r.address)
      [] input.kind = "short" -> input.short

\* How the address of an input was made: the network and the method of the
\* codec that generated it, "altered" or "short" when it is no such address.
InputFrom(input) ==
    [testnet |-> input.generated.testnet,
     kind |-> IF input.kind = "generated" THEN input.generated.kind ELSE input.kind]

CallBitcoinValidate ==
    \E testnet \in BOOLEAN, input \in BitcoinInputs :
        /\ last.op = "none"
        /\ last' = [op |-> "BitcoinValidate", h |-> 0, index |-> 0, err |-> "ok",
                    res |-> BitcoinValidate(testnet, InputAddress(input)), arg |-> InputAddress(input),
                    testnet |-> testnet, from |-> InputFrom(input)]
        /\ UNCHANGED <<keys, made, writes, procs, coinRegistry, generators, mn, path, wallet>>

CallBitcoinDecodeAddress ==
    \E testnet \in BOOLEAN, input \in BitcoinInputs :
        /\ last.op = "none"
        /\ \E r \in {BitcoinDecodeAddress(testnet, InputAddress(input))} :
               last' = [op |-> "BitcoinDecodeAddress", h |-> 0, index |-> 0, err |-> r.err,
                        res |-> r.info, arg |-> InputAddress(input),
                        testnet |-> testnet, from |-> InputFrom(input)]
        /\ UNCHANGED <<keys, made, writes, procs, coinRegistry, generators, mn, path, wallet>>

NextBitcoin == CallBitcoinValidate \/ CallBitcoinDecodeAddress

SpecBitcoin == Init /\ [][NextBitcoin]_vars

(***************************************************************************)
(* A caller of the codec instances: it generates an address from a public  *)
(* key and validates it on the same instance, and it decodes addresses:    *)
(* generated ones of either network, altered ones, and other strings.      *)
(***************************************************************************)
CodecInstances ==
    [chain : {"trx", "btc"}, testnet : BOOLEAN] \cup [chain : {"near", "sol", "eos"}, testnet : {FALSE}]

Decoders == {codec \in CodecInstances : codec.chain \in {"trx", "btc"}}

PublicKey64 == [i \in 1..64 |-> (i * 3) % 256]

CodecKeys == {PublicKey32, PublicKey33, PublicKey64, <<4>> \o PublicKey64, <<5>> \o PublicKey64, <<>>}

\* A TRON address in hex form, and the two characters of its prefix alone.
TronHex == HexEncodeToString(<<TronAddressPrefix>> \o SubSeq(Keccak256(PublicKey64), 13, 32))

DecodeInputs ==
    [made : {codec \in Decoders : codec.chain = "trx"}, kind : {"generated", "altered", "hex", "prefix"},
     short : {<<>>}]
        \cup [made : {codec \in Decoders : codec.chain = "btc"}, kind : {"generated", "altered"},
               short : {<<>>}]
        \cup [made : {[chain |-> "trx", testnet |-> FALSE]}, kind : {"short"}, short : AddressInputs]

DecodeInput(input) ==
    CASE input.kind = "generated" ->
             CodecGenerate(input.made, IF input.made.chain = "trx" THEN PublicKey64 ELSE PublicKey33).address
      [] input.kind = "altered" ->
             Altered(CodecGenerate(input.made,
                                   IF input.made.chain = "trx" THEN PublicKey64 ELSE PublicKey33).address)
      [] input.kind = "hex" -> TronHex
      [] input.kind = "prefix" -> SubSeq(TronHex, 1, 2)
      [] input.kind = "short" -> input.short

CodecCall(op, codec, arg, err, res) ==
    [op |-> op, h |-> 0, index |-> 0, err |-> err, res |-> res, arg |-> arg, codec |-> codec]

CallCodecGenerate ==
    \E codec \in CodecInstances, publicKey \in CodecKeys :
        /\ last.op = "none"
        /\ \E r \in {CodecGenerate(codec, publicKey)} :
               last' = CodecCall("Codec.Generate", codec, publicKey, r.err, r.address)
        /\ UNCHANGED <<keys, made, writes, procs, coinRegistry, generators, mn, path, wallet>>

\* Validate on the instance that generated the address, with that address.
CallCodecValidate ==
    /\ last.op = "Codec.Generate"
    /\ last.err = "ok"
    /\ last' = CodecCall("Codec.Validate", last.codec, last.res, "ok", CodecValidate(last.codec, last.res))
    /\ UNCHANGED <<keys, made, writes, procs, coinRegistry, generators, mn, path, wallet>>

CallCodecDecodeAddress ==
    \E codec \in Decoders, input \in DecodeInputs :
        /\ last.op = "none"
        /\ codec.chain = input.made.chain
        /\ \E r \in {CodecDecodeAddress(codec, DecodeInput(input))} :
               last' = CodecCall("Codec.DecodeAddress", codec, DecodeInput(input), r.err, r.info)
        /\ UNCHANGED <<keys, made, writes, procs, coinRegistry, generators, mn, path, wallet>>

NextCodecs == CallCodecGenerate \/ CallCodecValidate \/ CallCodecDecodeAddress

SpecCodecs == Init /\ [][NextCodecs]_vars

(***************************************************************************)
(* A caller of SegWitEncode and SegWitDecode: it encodes a witness program *)
(* and decodes the string it got.                                          *)
(***************************************************************************)
SegWitHRPs == {BitcoinBech32HRP, BitcoinTestnetBech32HRP, <<108, 116, 99>>}

SegWitVersions == 0..16

SegWitPrograms ==
    {Hash160Address(PublicKey33), [i \in 1..20 |-> 0], Elements(PublicKey32), SHA256Hash(Script)}

CallSegWitEncode ==
    \E hrp \in SegWitHRPs, witnessVersion \in SegWitVersions, witnessProgram \in SegWitPrograms :
        /\ last.op = "none"
        /\ \E r \in {SegWitEncode(hrp, witnessVersion, witnessProgram)} :
               last' = [op |-> "SegWitEncode", h |-> 0, index |-> 0, err |-> r.err, res |-> r.address,
                        arg |-> [hrp |-> hrp, witnessVersion |-> witnessVersion,
                                 witnessProgram |-> witnessProgram]]
        /\ UNCHANGED <<keys, made, writes, procs, coinRegistry, generators, mn, path, wallet>>

CallSegWitDecode ==
    /\ last.op = "SegWitEncode"
    /\ last.err = "ok"
    /\ \E r \in {SegWitDecode(last.res)} :
           last' = [op |-> "SegWitDecode", h |-> 0, index |-> 0, err |-> r.err,
                    res |-> [hrp |-> r.hrp, witnessVersion |-> r.witnessVersion,
                             witnessProgram |-> r.witnessProgram],
                    arg |-> last.res, from |-> last.arg]
    /\ UNCHANGED <<keys, made, writes, procs, coinRegistry, generators, mn, path, wallet>>

NextSegWit == CallSegWitEncode \/ CallSegWitDecode

SpecSegWit == Init /\ [][NextSegWit]_vars

(***************************************************************************)
(* Properties of the extended-key engine.                                  *)
(***************************************************************************)

\* C1: whenever the string form of a key of the heap has been parsed, the
\* parse succeeded and the parsed key equals that key in every field (key
\* material, chain code, depth, parent fingerprint, child index, network,
\* private/public tag).
C1_ParseOfStringIsKey ==
    (last.op = "ParseExtendedKey" /\ last.h > 0) =>
        /\ last.err = "ok"
        /\ keys[last.res] = keys[last.h]

\* The fields of the public key that belongs to k.
PublicView(k) ==
    [pub |-> PublicKeyBytes(k), chainCode |-> k.chainCode, depth |-> k.depth,
     parentFP |-> k.parentFP, childIndex |-> k.childIndex]

\* C2: when a master private key, its child at a non-hardened index i and
\* the neutered child are on the heap, deriving the child at i from the
\* neutered master succeeds and yields a key with the same public key
\* bytes, chain code, depth, parent fingerprint and child index.
C2_NeuterChildCommute ==
    (made = <<"master", "child", "neuter">> /\ ~IsHardened(keys[2].childIndex)) =>
        LET r == Child(Neuter(keys[1]), keys[2].childIndex)
        IN  /\ r.err = "ok"
            /\ PublicView(r.key) = PublicView(keys[3])

C2_Witness ==
    /\ made = <<"master", "child", "neuter">>
    /\ ~IsHardened(keys[2].childIndex)
    /\ keys[2].childIndex = 1
    /\ ~keys[3].isPrivate

\* C3: a Child call at a hardened index on a public key has failed with
\* ErrHardenedFromPublic and has put no key on the heap.
C3_HardenedFromPublic ==
    (last.op = "Child" /\ IsHardened(last.index) /\ ~keys[last.h].isPrivate) =>
        /\ last.err = "ErrHardenedFromPublic"
        /\ last.res = 0
        /\ Len(keys) = last.h

C3_Witness ==
    /\ last.op = "Child"
    /\ last.index = HardenedKeyStart + 1
    /\ ~keys[last.h].isPrivate
    /\ last.err = "ErrHardenedFromPublic"

\* C4: no call ends in a panic: every call returns a value or an error.
C4_NoPanic == last.err # "panic"

\* A private key holds 0x00 and a scalar in (0, n); a public key holds a
\* compressed point of the curve.
KeyMaterialOk(k) ==
    IF k.isPrivate
    THEN /\ Len(k.key) = KeyLen
         /\ k.key[1] = 0
         /\ SetBytes(Tail(k.key)) > 0
         /\ SetBytes(Tail(k.key)) < N
    ELSE /\ Len(k.key) = KeyLen
         /\ k.key[1] \in {PrefixEven, PrefixOdd}
         /\ SetBytes(Tail(k.key)) < P
         /\ DecompressPoint(k.key).err = "ok"

\* C5: every key on the heap, however it was created, satisfies the
\* key-material invariant.
C5_KeyMaterial == \A h \in DOMAIN keys : made[h] # "written" => KeyMaterialOk(keys[h])

\* C6: a child derived at index i has its parent's depth plus one, the
\* parent's fingerprint as parent fingerprint, and child index i.
C6_ChildFields ==
    (last.op = "Child" /\ last.err = "ok") =>
        /\ keys[last.res].depth = keys[last.h].depth + 1
        /\ keys[last.res].parentFP = Fingerprint(keys[last.h])
        /\ keys[last.res].childIndex = last.index

\* C7: a child has the private/public tag and the network of its parent
\* and is in the internal state, depth >= 1.
C7_ChildPreserves ==
    (last.op = "Child" /\ last.err = "ok") =>
        /\ keys[last.res].isPrivate = keys[last.h].isPrivate
        /\ keys[last.res].network = keys[last.h].network
        /\ keys[last.res].depth >= 1

\* C8: no step changes a field of a key that is on the heap.
C8_Immutable == [][\A h \in DOMAIN keys : keys'[h] = keys[h]]_vars

\* C9: no two calls are in the same shared map at the same time when one of
\* them writes it: the callers never race on the shared registries.
C9_NoDataRace ==
    \A p, q \in Procs :
        (p # q /\ procs[p].pc = "run" /\ procs[q].pc = "run") =>
            ~Conflict(procs[p].op, procs[q].op)

\* C10: the entropy decoded from the mnemonic of an entropy of 16, 20, 24,
\* 28 or 32 bytes is that entropy.
C10_MnemonicRoundTrip ==
    (mn.phase = "decoded" /\ Len(mn.entropy) \in {16, 20, 24, 28, 32}) =>
        /\ mn.derr = "ok"
        /\ mn.decoded = mn.entropy

C10_Witness ==
    /\ mn.phase = "decoded"
    /\ Len(mn.entropy) = 32
    /\ mn.entropy[1] = 37
    /\ Len(Fields(mn.mnemonic)) = 24
    /\ mn.decoded = mn.entropy

\* The words of the string that was decoded, their indices in the word list
\* and the bits these indices spell, 11 per word.
DecodedWords == Fields(mn.mnemonic)

WordBits(ws) ==
    LET index == [i \in DOMAIN ws |-> WordIndex(DefaultWordList, ws[i])]
    IN  [k \in 0..(Len(ws) * 11 - 1) |-> (index[(k \div 11) + 1] \div (2 ^ (10 - (k % 11)))) % 2]

\* The leading entropy of the bits: all but the last Len(ws) / 3 of them.
LeadingEntropy(ws) ==
    LET bits == WordBits(ws)
    IN  [b \in 1..((Len(ws) * 11 - Len(ws) \div 3) \div 8) |->
            SumRange([i \in 0..7 |-> bits[(b - 1) * 8 + i] * 2 ^ (7 - i)], 0, 7)]

\* The trailing bits are the first bits of SHA-256 of the leading entropy.
ChecksumAgrees(ws) ==
    LET e == LeadingEntropy(ws)
        bits == WordBits(ws)
    IN  \A i \in 0..(Len(ws) \div 3 - 1) :
            bits[Len(e) * 8 + i] = (SHA256(e)[1] \div 2 ^ (7 - i)) % 2

KnownWords == {englishWords[j] : j \in DOMAIN englishWords}

AllKnown(ws) == \A i \in DOMAIN ws : ws[i] \in KnownWords

\* C11: a decode has reported ErrInvalidMnemonicLength exactly when the
\* number of words is not 12, 15, 18, 21 or 24, ErrInvalidMnemonic exactly
\* when the number is valid and a word is not in the list, ErrInvalidChecksum
\* exactly when every word is known and the trailing bits are not the first
\* bits of SHA-256 of the leading entropy, and has succeeded, returning the
\* leading entropy, in the remaining case.
C11_DecodeErrors ==
    (mn.phase \in {"checked", "validated"}) =>
        LET ws == DecodedWords
        IN  IF Len(ws) \notin {12, 15, 18, 21, 24} THEN mn.derr = "ErrInvalidMnemonicLength"
            ELSE IF ~AllKnown(ws) THEN mn.derr = "ErrInvalidMnemonic"
            ELSE IF ~ChecksumAgrees(ws) THEN mn.derr = "ErrInvalidChecksum"
            ELSE mn.derr = "ok" /\ mn.decoded = LeadingEntropy(ws)

C11_Witness ==
    /\ mn.phase = "checked"
    /\ Len(DecodedWords) = 24
    /\ AllKnown(DecodedWords)
    /\ mn.derr = "ErrInvalidChecksum"

\* C12: a NewMasterKey call with a seed shorter than 16 bytes or longer than
\* 64 bytes has failed with ErrInvalidSeedLength and has created no key.
C12_InvalidSeedLength ==
    (last.op = "NewMasterKey" /\ (last.index < 16 \/ last.index > 64)) =>
        /\ last.err = "ErrInvalidSeedLength"
        /\ last.res = 0
        /\ keys = <<>>

C12_Witness ==
    /\ last.op = "NewMasterKey"
    /\ last.index = 65
    /\ last.err = "ErrInvalidSeedLength"
    /\ keys = <<>>

(***************************************************************************)
(* Properties of the path parsers and of the BIP-44 path value.            *)
(***************************************************************************)
HardenedMarks == {Apostrophe, LowerH, UpperH}

IsDecimal(c) == c # <<>> /\ \A i \in DOMAIN c : c[i] >= 48 /\ c[i] <= 57

Marked(c) == c # <<>> /\ c[Len(c)] \in HardenedMarks

Number(c) == IF Marked(c) THEN Front(c) ELSE c

\* The components of a BIP-32 path string: the parts between the slashes,
\* after the optional m/ or M/; the empty path and m have none.
ComponentsOf(str) ==
    LET t == TrimSpace(str)
    IN  IF t = <<>> \/ t = <<LowerM>> \/ t = <<UpperM>> THEN <<>>
        ELSE IF HasPrefix(t, <<LowerM, Slash>>) \/ HasPrefix(t, <<UpperM, Slash>>)
        THEN Split(SubSeq(t, 3, Len(t)), Slash)
        ELSE Split(t, Slash)

\* C13: a BIP-32 path parse has failed with ErrInvalidPath when a component
\* is no decimal integer (with or without a hardened mark) or is a marked
\* integer of HardenedKeyStart or more, and a successful parse has returned
\* one index per component, n + HardenedKeyStart for a marked integer n.
C13_PathComponents ==
    (last.op = "bip32.ParsePath") =>
        LET cs == ComponentsOf(last.arg)
        IN  /\ (\E i \in DOMAIN cs :
                   \/ ~IsDecimal(Number(cs[i]))
                   \/ Marked(cs[i]) /\ DecimalValue(Number(cs[i])) >= HardenedKeyStart)
                    => last.err = "ErrInvalidPath"
            /\ last.err = "ok" =>
                   /\ Len(last.res) = Len(cs)
                   /\ \A i \in DOMAIN cs :
                          Marked(cs[i]) => last.res[i] = DecimalValue(Number(cs[i])) + HardenedKeyStart

\* C29: a successful BIP-32 path parse has returned an index with the
\* hardened bit set only for a component that carries a hardened mark: the
\* index of a component without ', h or H is below HardenedKeyStart.
C29_HardenedOnlyMarked ==
    (last.op = "bip32.ParsePath" /\ last.err = "ok") =>
        LET cs == SelectSeq(ComponentsOf(last.arg), LAMBDA c : c # <<>>)
        IN  \A i \in DOMAIN cs \cap DOMAIN last.res : IsHardened(last.res[i]) => Marked(cs[i])

\* The components of a BIP-44 path string: the parts after m/.
Bip44Components(str) ==
    LET t == TrimSpace(str)
    IN  IF HasPrefix(t, <<LowerM, Slash>>) THEN Split(SubSeq(t, 3, Len(t)), Slash) ELSE <<>>

\* c writes the hardened index n: digits of value n and hardened marks after them.
WritesHardened(c, n) ==
    LET t == TrimSpace(c)
        k == Cardinality({i \in DOMAIN t : \A j \in 1..i : t[j] >= 48 /\ t[j] <= 57})
    IN  /\ k > 0 /\ k < Len(t)
        /\ DecimalValue(SubSeq(t, 1, k)) = n
        /\ \A i \in (k + 1)..Len(t) : t[i] \in HardenedMarks

C15_ChangeZeroOrOne ==
    (last.op = "bip44.ParsePath") =>
        LET cs == Bip44Components(last.arg)
            change == TrimSpace(cs[4])
        IN  /\ (Len(cs) = 5 /\ IsDecimal(change) /\ DecimalValue(change) >= 2) =>
                   (last.err # "ok" /\ last.res = NoPath /\ path.value = NoPath)
            /\ last.err = "ok" =>
                   /\ Len(cs) = 5
                   /\ IsDecimal(change)
                   /\ DecimalValue(change) \in {0, 1}
                   /\ path.value.Change = DecimalValue(change)

C15_Witness ==
    /\ last.op = "bip44.ParsePath"
    /\ last.arg = Bip44String(NewPath(0, 0, 2, 0))
    /\ last.err = "ErrInvalidChange"
    /\ path.value = NoPath

\* C16: the BIP-32 form of the BIP-44 path the caller holds has five
\* indices: purpose, coin type and account hardened, change and address
\* index not hardened.
C16_Bip32Form ==
    (path.value # NoPath) =>
        LET p == ToBIP32Path(path.value)
        IN  /\ Len(p) = 5
            /\ \A i \in 1..3 : IsHardened(p[i])
            /\ \A i \in 4..5 : ~IsHardened(p[i])

(***************************************************************************)
(* Properties of bulk address derivation.                                  *)
(***************************************************************************)
\* The keys DeriveAddress returns for the indices of a bulk call c.
OneByOne(c) ==
    [i \in 0..(c.count - 1) |-> DeriveAddress(c.account, c.change, (c.start + i) % (2 ^ IndexBits))]

\* C17: a bulk derivation whose addresses can each be derived has returned
\* count keys, the i-th the key DeriveAddress returns for start + i, with
\* the child indices start, start + 1, ...; any other has failed.
C17_DeriveAddresses ==
    \A n \in DOMAIN wallet.log :
        LET c == wallet.log[n]
            one == OneByOne(c)
        IN  IF Child(c.account.accountKey, c.change).err = "ok"
                   /\ \A i \in 0..(c.count - 1) : one[i].err = "ok"
            THEN /\ c.err = "ok"
                 /\ Len(c.keys) = c.count
                 /\ \A i \in 0..(c.count - 1) :
                        /\ c.keys[i + 1] = one[i].key
                        /\ c.keys[i + 1].childIndex = c.start + i
            ELSE c.err # "ok"

\* C18: two bulk derivations with the same arguments have returned the same;
\* when one starts where another ended, the derivation of the whole range
\* succeeds exactly when both did and returns the keys of the first followed
\* by the keys of the second; and the account is the one each call was made on.
C18_Restartable ==
    \A n, m \in DOMAIN wallet.log :
        LET a == wallet.log[n]
            b == wallet.log[m]
            whole == DeriveAddresses(wallet.account, a.change, a.start, a.count + b.count)
        IN  /\ a.account = wallet.account
            /\ (a.change = b.change /\ a.start = b.start /\ a.count = b.count) =>
                   (a.err = b.err /\ a.keys = b.keys)
            /\ (a.change = b.change /\ b.start = (a.start + a.count) % (2 ^ IndexBits)) =>
                   /\ (whole.err = "ok") <=> (a.err = "ok" /\ b.err = "ok")
                   /\ whole.err = "ok" => whole.keys = a.keys \o b.keys

C18_Witness ==
    /\ Len(wallet.log) = 2
    /\ wallet.log[1].err = "ok" /\ wallet.log[2].err = "ok"
    /\ wallet.log[1].change = wallet.log[2].change
    /\ wallet.log[1].start = 0 /\ wallet.log[1].count = 1
    /\ wallet.log[2].start = 1 /\ wallet.log[2].count = 2

(***************************************************************************)
(* Properties of the SLIP-10 walker.                                       *)
(***************************************************************************)
\* C19: a SLIP-10 derivation from a seed of 16 bytes or more has succeeded,
\* and with any one index below HardenedKeyStart of its path replaced by
\* that index plus HardenedKeyStart the derivation returns the same private
\* key and public key.
C19_Promoted ==
    (last.op = "DeriveKeyFromPath" /\ Len(last.arg[1]) >= 16) =>
        /\ last.err = "ok"
        /\ \A j \in DOMAIN last.arg[2] :
               last.arg[2][j] < HardenedKeyStart =>
                   LET r == DeriveKeyFromPath(last.arg[1],
                                              [last.arg[2] EXCEPT ![j] = @ + HardenedKeyStart])
                   IN  r.err = "ok" /\ <<r.key, r.publicKey>> = last.res

C19_Witness ==
    /\ last.op = "DeriveKeyFromPath"
    /\ Len(last.arg[1]) = 16
    /\ last.arg[2] = <<44, HardenedKeyStart + 1>>
    /\ last.err = "ok"
    /\ last.res[1] # <<>>

(***************************************************************************)
(* Properties of the address codecs.                                       *)
(***************************************************************************)
\* C20: whichever codec is asked, Validate of the string "invalid" returns
\* false.
C20_InvalidRejected ==
    (last.op = "Validate" /\ last.arg = Invalid) => last.res = FALSE

(***************************************************************************)
(* Properties of the Factory.                                              *)
(***************************************************************************)
\* C21: on the factory as NewFactory made it, Get of a chain the package
\* declares succeeds and returns a generator.
C21_FactoryPopulated ==
    (last.op = "FactoryGet" /\ last.fresh /\ last.arg[1] \in BuiltinChains) =>
        last.err = "ok" /\ last.gen # "nil"

\* C22: a lookup, generation or validation leaves the map as it is; for a
\* chain with no generator it reports ErrUnsupportedChain (false, for
\* Validate) and goes to no generator; for a chain with one it goes to the
\* generator the map holds and returns what that generator returns.  Register
\* makes its generator the one the map holds for its chain and changes no
\* other entry.
C22_Delegates ==
    [][/\ last'.op \in {"FactoryGet", "FactoryGenerate", "FactoryValidate"} =>
            /\ generators' = generators
            /\ IF last'.arg[1] \notin DOMAIN generators
               THEN /\ last'.gen = "nil"
                    /\ last'.op = "FactoryValidate" => last'.res = FALSE
                    /\ last'.op # "FactoryValidate" => last'.err = "ErrUnsupportedChain"
                    /\ last'.op = "FactoryGenerate" => last'.res = <<>>
               ELSE /\ last'.gen = generators[last'.arg[1]]
                    /\ last'.op = "FactoryGet" => last'.err = "ok"
                    /\ last'.op = "FactoryValidate" =>
                           last'.res = GeneratorValidate(generators[last'.arg[1]], last'.arg[2])
                    /\ last'.op = "FactoryGenerate" =>
                           /\ last'.err = GeneratorGenerate(generators[last'.arg[1]], last'.arg[2]).err
                           /\ last'.res = GeneratorGenerate(generators[last'.arg[1]], last'.arg[2]).address
       /\ last'.op = "FactoryRegister" =>
            /\ DOMAIN generators' = DOMAIN generators \cup {last'.arg[1]}
            /\ generators'[last'.arg[1]] = last'.arg[2]
            /\ \A c \in DOMAIN generators \ {last'.arg[1]} : generators'[c] = generators[c]]_vars

C22_Witness ==
    /\ last.op = "FactoryValidate"
    /\ last.arg = <<"near", Invalid>>
    /\ generators["near"] = "NewSolanaAddress"
    /\ last.gen = "NewSolanaAddress"
    /\ last.res = FALSE

(***************************************************************************)
(* Properties of the Base58 decoder.                                       *)
(***************************************************************************)
\* C23: decoding a string with a character outside the alphabet fails and
\* returns no bytes.
C23_OutsideAlphabet ==
    (last.op = "Base58Decode" /\ \E i \in DOMAIN last.arg : ~InAlphabet(last.arg[i])) =>
        last.err # "ok" /\ last.res = <<>>

(***************************************************************************)
(* Properties of the Bitcoin codec.                                        *)
(***************************************************************************)
BitcoinKinds == {"P2PKH", "P2SH", "P2WPKH", "P2WSH", "P2TR"}

\* C24: the codec of a network validates every address the codec of that
\* network generated, Base58Check or SegWit.
C24_ValidatesGenerated ==
    (last.op = "BitcoinValidate" /\ last.from.kind \in BitcoinKinds /\ last.from.testnet = last.testnet) =>
        last.res = TRUE

\* C25: the codec of a network validates no address the codec of the other
\* network generated.
C25_OtherNetworkRejected ==
    (last.op = "BitcoinValidate" /\ last.from.kind \in BitcoinKinds /\ last.from.testnet # last.testnet) =>
        last.res = FALSE

(***************************************************************************)
(* Properties of the codec instances.                                      *)
(***************************************************************************)
\* C26: validate on a codec instance accepts the address that generate on
\* the same instance made of a public key it accepted.
C26_ValidatesOwnAddress ==
    last.op = "Codec.Validate" => last.res = TRUE

\* C30: a decode that succeeded was given an address that validate on the
\* same codec instance accepts, and a decode that failed returned no
\* address info.
C30_DecodesOnlyValid ==
    last.op = "Codec.DecodeAddress" =>
        /\ last.err = "ok" => CodecValidate(last.codec, last.arg)
        /\ last.err # "ok" => last.res = <<>>

(***************************************************************************)
(* Properties of Wallet.DeriveKey.                                         *)
(***************************************************************************)
\* C27: Wallet.DeriveKey on a BIP-44 path value p has the outcome of walking
\* the master key along the indices p.ToBIP32Path(): both have succeeded
\* with the same key, or both have failed.
C27_DeriveKeyIsWalk ==
    last.op = "DeriveKey" =>
        LET same(walk) == /\ (last.err = "ok") = (walk.err = "ok")
                          /\ last.err = "ok" => last.res = walk.key
        IN  same(DeriveFromPath(wallet.masterKey, ToBIP32Path(last.arg)))

(***************************************************************************)
(* Properties of the SegWit encoding.                                      *)
(***************************************************************************)
\* C28: decoding the string SegWitEncode made of a lower-case HRP, a witness
\* version in 0..16 and a program of 20 or 32 bytes succeeds and gives back
\* the HRP, the version and the program.
C28_DecodeInvertsEncode ==
    last.op = "SegWitDecode" => (last.err = "ok" /\ last.res = last.from)

====
